---- MODULE Spec2Model ----
(***************************************************************************)
(* A model of the IP-reconciliation core of grocky/ddns-service:           *)
(*   - the rate limiter              (internal/ratelimit)                  *)
(*   - the Update orchestrator       (internal/handlers/update.go)         *)
(*   - the subdomain migration       (internal/admin, ChangeSubdomain)     *)
(*   - the consensus IP resolver     (pkg/pubip)                           *)
(*                                                                         *)
(* An address literal such as 203.0.113.42 is abbreviated to a one-letter  *)
(* string ("x", "y", "z").  Time is an integer number of ticks since Go's  *)
(* zero time; Second ticks make one second and Hour ticks one hour.        *)
(***************************************************************************)
EXTENDS Integers, Sequences, FiniteSets, TLC

VARIABLES
    now,        \* the server's wall clock (time.Now().UTC())
    store,      \* mapping store: pair -> IPMapping or NoMapping
    dns,        \* the provider's A records: record name -> record or NoRecord
    last,       \* the handler invocation just completed (request, calls, response)
    accepted,   \* per pair: the hour of the last Updated response and how many in it
    log,        \* the Updates of one client in order: address, time, outcome
    inflight,   \* the Update invocations running side by side, and where each is
    replies,    \* resolver: per authority, what its HTTP exchange comes to
    workers,    \* resolver: per authority, where its goroutine is and its result
    results,    \* resolver: the buffered results channel
    closed,     \* resolver: the results channel has been closed
    ctxDone,    \* resolver: the caller's context is done
    ipCounts,   \* resolver: the collector's tally of addresses
    lastErr,    \* resolver: the last authority error the collector received
    received,   \* resolver: the results the collector has received, in order
    ret,        \* resolver: what queryWithConsensus has returned
    lastIP      \* daemon: the last IP the server accepted, kept in memory

serverVars == <<now, store, dns, last, accepted, log, inflight>>
\* the client side: the resolver and the daemon
resolverVars ==
    <<replies, workers, results, closed, ctxDone, ipCounts, lastErr, received,
      ret, lastIP>>

vars == <<serverVars, resolverVars>>

----------------------------------------------------------------------------
(* Bounds of the model *)

\* ticks per second (the resolution below one second)
Second == 2

\* seconds per hour (time.Hour scaled down)
SecondsPerHour == 2

\* number of ticks the clock runs through
ClockTicks == 6

\* number of Updates in a client's log
ScenarioLength == 4

\* number of hours the times given to Check range over
CheckHours == 3

\* number of requests of every shape made one after another
AddressLength == 2

\* the number of Updates of a run with two invocations side by side, and the
\* ticks of the clock during it
RaceRequests == 3
RaceTicks == 1

\* migrations run while Updates are in flight, and the Updates beside them
RaceMigrations == 1
InterleavedRequests == 2

\* the number of Updates of a run with a failing store
WindowLength == 3

Hour == SecondsPerHour * Second

\* Go's zero time.Time: the LastIPChangeAt of a mapping never changed
ZeroTime == 0

\* the clock starts in the middle of an hour
FirstClock == Hour + Hour \div 2
LastClock == FirstClock + ClockTicks

----------------------------------------------------------------------------
(* Program constants *)

MaxChangesPerHour == 2

DefaultTTL == 300

SubdomainLength == 8

RootDomain == "grocky.net"

StatusOK == 200
StatusBadRequest == 400
StatusUnauthorized == 401
StatusTooManyRequests == 429
StatusInternalServerError == 500

----------------------------------------------------------------------------
(* Text *)

\* the white space strings.TrimSpace removes, of the characters the model uses
IsSpace(c) == c \in {" ", "\t", "\n", "\r"}

RECURSIVE TrimLeft(_)
TrimLeft(s) ==
    IF Len(s) > 0 /\ IsSpace(SubSeq(s, 1, 1))
    THEN TrimLeft(SubSeq(s, 2, Len(s)))
    ELSE s

RECURSIVE TrimRight(_)
TrimRight(s) ==
    IF Len(s) > 0 /\ IsSpace(SubSeq(s, Len(s), Len(s)))
    THEN TrimRight(SubSeq(s, 1, Len(s) - 1))
    ELSE s

\* strings.TrimSpace
TrimSpace(s) == TrimRight(TrimLeft(s))

\* strings.Split(s, ",")[0]: the text before the first comma
RECURSIVE SplitFirst(_)
SplitFirst(s) ==
    IF Len(s) = 0 \/ SubSeq(s, 1, 1) = ","
    THEN ""
    ELSE SubSeq(s, 1, 1) \o SplitFirst(SubSeq(s, 2, Len(s)))

----------------------------------------------------------------------------
(* Time *)

\* t.Truncate(time.Hour)
TruncateHour(t) == t - (t % Hour)

\* t.Format(time.RFC3339): the time to the whole second
FormatRFC3339(t) == t \div Second

\* int(d.Seconds()): a duration in whole seconds, the fraction dropped
WholeSeconds(d) == d \div Second

----------------------------------------------------------------------------
(* Subdomain derivation *)

\* fmt.Sprintf("%x", md5.Sum(input)) for the inputs the model uses
Md5Hex(input) ==
    CASE input = "acme-home" -> "a47763d19f41b89d3d1bf46a1abd2a15"
      [] input = "acme-office" -> "fc623497fc3708ccfe26eaac799d6522"
      [] input = "other-home" -> "3fde447643644c4f68cf56d57d00a190"
      [] input = "homelab-primary" -> "a9675db90a2c7174d96fc736a0ae85c6"
      [] input = "a-b-c" -> "7b193b3d33184464106f41ddf733783b"
      [] input = "other-office" -> "8da6622b434ebecb824989995226b301"
      [] input = "my-home-lab-home" -> "6abf7de63e36e81dce2b068064b2ceff"
      [] input = "my-home-lab-office" -> "71be0bf7cf9f2d6fff102918e8292532"
      [] input = "acme-corp-office" -> "b7f5de816b31a1bdfb93e2a548830b7e"

\* GenerateSubdomain that returns the whole digest
GenerateSubdomainWholeDigest(ownerID, location) ==
    Md5Hex(ownerID \o "-" \o location)

GenerateSubdomain(ownerID, location) ==
    SubSeq(Md5Hex(ownerID \o "-" \o location), 1, SubdomainLength)

FormatFQDN(subdomain) == subdomain \o "." \o RootDomain

BuildACMEChallengeName(subdomain) == "_acme-challenge." \o subdomain

----------------------------------------------------------------------------
(* Inputs *)

Owners == {"acme"}
Locations == {"home"}
Pairs == Owners \X Locations

IPs == {"x", "y", "z"}

\* the labels an administrator migrates to
NewSubdomains == {"home"}

Labels == {GenerateSubdomain(p[1], p[2]) : p \in Pairs} \cup NewSubdomains
RecordNames == {FormatFQDN(l) : l \in Labels}

\* the names and values of the TXT records of ACME challenges
ChallengeNames == {BuildACMEChallengeName(l) : l \in Labels}
TxtValues == {"token1", "token2"}

\* the transport metadata of a request: both spellings of the forwarded-address
\* header and the direct connection address
Transport(upper, lower, source) ==
    [XForwardedFor |-> upper, xForwardedFor |-> lower, SourceIP |-> source]

Transports ==
    {Transport(ip, "", "") : ip \in IPs}
    \cup {Transport("x, y", "", "z"), Transport("", " y ", "z"),
          Transport("", "", "z"), Transport("", "", ""), Transport(" ", "", "z")}

Credentials == {"ok", "noToken", "badKey", "storeDown"}

Request(body, ownerID, location, ip, auth, transport) ==
    [Body |-> body, OwnerID |-> ownerID, Location |-> location, IP |-> ip,
     Auth |-> auth,
     XForwardedFor |-> transport.XForwardedFor,
     xForwardedFor |-> transport.xForwardedFor,
     SourceIP |-> transport.SourceIP]

\* requests that pass parsing, validation and authentication
ValidRequests ==
    {Request("ok", p[1], p[2], "", "ok", tr) : p \in Pairs, tr \in Transports}
    \cup {Request("ok", p[1], p[2], "z", "ok", Transport("x", "", "")) : p \in Pairs}

\* requests that fail one of them
InvalidRequests ==
    {Request("malformed", "", "", "", "ok", Transport("x", "", ""))}
    \cup {Request("ok", "", p[2], "", "ok", Transport("x", "", "")) : p \in Pairs}
    \cup {Request("ok", p[1], "", "", "ok", Transport("x", "", "")) : p \in Pairs}
    \cup {Request("ok", p[1], p[2], "", c, Transport("x", "", "")) :
            p \in Pairs, c \in Credentials \ {"ok"}}

ChangeSubdomainInputs ==
    [OwnerID : Owners, Location : Locations, NewSubdomain : NewSubdomains]

----------------------------------------------------------------------------
(* Rate limiter *)

NoMapping == [absent |-> TRUE]

\* Check with the limit compared by > instead of >=
CheckOffByOne(mapping, t) ==
    IF mapping = NoMapping
    THEN [Allowed |-> TRUE, RetryAfter |-> 0]
    ELSE LET currentHour == TruncateHour(t)
             lastChangeHour == TruncateHour(mapping.LastIPChangeAt)
         IN  IF lastChangeHour # currentHour
             THEN [Allowed |-> TRUE, RetryAfter |-> 0]
             ELSE IF mapping.HourlyChangeCount > MaxChangesPerHour
             THEN [Allowed |-> FALSE, RetryAfter |-> (currentHour + Hour) - t]
             ELSE [Allowed |-> TRUE, RetryAfter |-> 0]

\* Check with a window of one hour from the last change
CheckSlidingWindow(mapping, t) ==
    IF mapping = NoMapping
    THEN [Allowed |-> TRUE, RetryAfter |-> 0]
    ELSE IF t - mapping.LastIPChangeAt >= Hour
    THEN [Allowed |-> TRUE, RetryAfter |-> 0]
    ELSE IF mapping.HourlyChangeCount >= MaxChangesPerHour
    THEN [Allowed |-> FALSE, RetryAfter |-> (TruncateHour(t) + Hour) - t]
    ELSE [Allowed |-> TRUE, RetryAfter |-> 0]

\* Check that looks at the count before the hour
CheckCountBeforeHour(mapping, t) ==
    IF mapping = NoMapping
    THEN [Allowed |-> TRUE, RetryAfter |-> 0]
    ELSE IF mapping.HourlyChangeCount >= MaxChangesPerHour
    THEN [Allowed |-> FALSE, RetryAfter |-> (TruncateHour(t) + Hour) - t]
    ELSE [Allowed |-> TRUE, RetryAfter |-> 0]

\* ratelimit.Check; a nil mapping is NoMapping
Check(mapping, t) ==
    IF mapping = NoMapping
    THEN [Allowed |-> TRUE, RetryAfter |-> 0]
    ELSE LET currentHour == TruncateHour(t)
             lastChangeHour == TruncateHour(mapping.LastIPChangeAt)
         IN  IF lastChangeHour # currentHour
             THEN [Allowed |-> TRUE, RetryAfter |-> 0]
             ELSE IF mapping.HourlyChangeCount >= MaxChangesPerHour
             THEN [Allowed |-> FALSE, RetryAfter |-> (currentHour + Hour) - t]
             ELSE [Allowed |-> TRUE, RetryAfter |-> 0]

\* UpdateCounters that starts a new hour at zero
UpdateCountersFromZero(mapping, t) ==
    LET currentHour == TruncateHour(t)
        lastChangeHour == TruncateHour(mapping.LastIPChangeAt)
    IN  [mapping EXCEPT
            !.HourlyChangeCount =
                IF lastChangeHour # currentHour THEN 0 ELSE @ + 1,
            !.LastIPChangeAt = t]

\* UpdateCounters that starts the count again at every change
UpdateCountersNoIncrement(mapping, t) ==
    [mapping EXCEPT !.HourlyChangeCount = 1, !.LastIPChangeAt = t]

\* UpdateCounters that counts on while less than an hour has passed
UpdateCountersSlidingWindow(mapping, t) ==
    [mapping EXCEPT
        !.HourlyChangeCount =
            IF t - mapping.LastIPChangeAt >= Hour THEN 1 ELSE @ + 1,
        !.LastIPChangeAt = t]

\* ratelimit.UpdateCounters
UpdateCounters(mapping, t) ==
    LET currentHour == TruncateHour(t)
        lastChangeHour == TruncateHour(mapping.LastIPChangeAt)
    IN  [mapping EXCEPT
            !.HourlyChangeCount =
                IF lastChangeHour # currentHour THEN 1 ELSE @ + 1,
            !.LastIPChangeAt = t]

----------------------------------------------------------------------------
(* The DNS provider: record sets by record name.  The names of TXT records
   (_acme-challenge.{subdomain}) and of A records never coincide. *)

NoRecord == [absent |-> TRUE]

ARecord(ip) == [Type |-> "A", Value |-> ip, TTL |-> DefaultTTL]

\* a TXT record set; the value is stored quoted
TXTRecord(value) == [Type |-> "TXT", Value |-> "\"" \o value \o "\"", TTL |-> DefaultTTL]

Change(action, name, ip) ==
    [Action |-> action, Name |-> name, Record |-> ARecord(ip)]

\* One change of a batch applied to the record set; Rejected when the provider
\* refuses it (DELETE of a record that is not there with those values, CREATE
\* of a name that exists).
Rejected == [rejected |-> TRUE]

ApplyChange(records, c) ==
    CASE c.Action = "UPSERT" -> [records EXCEPT ![c.Name] = c.Record]
      [] c.Action = "CREATE" ->
            IF records[c.Name] = NoRecord
            THEN [records EXCEPT ![c.Name] = c.Record]
            ELSE Rejected
      [] c.Action = "DELETE" ->
            IF records[c.Name] = c.Record
            THEN [records EXCEPT ![c.Name] = NoRecord]
            ELSE Rejected

RECURSIVE ApplyChanges(_, _)
ApplyChanges(records, changes) ==
    IF changes = <<>> THEN records
    ELSE LET r == ApplyChange(records, Head(changes))
         IN  IF r = Rejected THEN Rejected ELSE ApplyChanges(r, Tail(changes))

\* Route53Client.ChangeResourceRecordSets: the batch is committed as a whole or
\* not at all; up is whether the provider is reachable for this call. submitted
\* lists the batches handed to the provider, one for each call made.
ChangeResourceRecordSets(records, changes, up) ==
    LET r == IF up THEN ApplyChanges(records, changes) ELSE Rejected
    IN  IF r = Rejected
        THEN [ok |-> FALSE, records |-> records, submitted |-> <<changes>>]
        ELSE [ok |-> TRUE, records |-> r, submitted |-> <<changes>>]

\* UpsertRecord with the action CREATE
UpsertRecordCreateOnly(records, subdomain, ip, up) ==
    LET recordName == subdomain \o "." \o RootDomain
    IN  ChangeResourceRecordSets(records, <<Change("CREATE", recordName, ip)>>, up)

\* Route53Service.UpsertRecord
UpsertRecord(records, subdomain, ip, up) ==
    LET recordName == subdomain \o "." \o RootDomain
    IN  ChangeResourceRecordSets(records, <<Change("UPSERT", recordName, ip)>>, up)

\* Route53Service.UpsertTXTRecord
UpsertTXTRecord(records, name, value, up) ==
    LET recordName == name \o "." \o RootDomain
        quotedValue == "\"" \o value \o "\""
    IN  ChangeResourceRecordSets(records,
            <<[Action |-> "UPSERT", Name |-> recordName,
               Record |-> [Type |-> "TXT", Value |-> quotedValue,
                           TTL |-> DefaultTTL]]>>, up)

\* DeleteTXTRecord that submits the batch once more when the provider refuses it
DeleteTXTRecordRetrying(records, name, value, up) ==
    LET recordName == name \o "." \o RootDomain
        quotedValue == "\"" \o value \o "\""
        batch == <<[Action |-> "DELETE", Name |-> recordName,
                    Record |-> [Type |-> "TXT", Value |-> quotedValue,
                                TTL |-> DefaultTTL]]>>
        first == ChangeResourceRecordSets(records, batch, up)
        second == ChangeResourceRecordSets(records, batch, up)
    IN  IF first.ok THEN first
        ELSE [second EXCEPT !.submitted = first.submitted \o @]

\* Route53Service.DeleteTXTRecord
DeleteTXTRecord(records, name, value, up) ==
    LET recordName == name \o "." \o RootDomain
        quotedValue == "\"" \o value \o "\""
    IN  ChangeResourceRecordSets(records,
            <<[Action |-> "DELETE", Name |-> recordName,
               Record |-> [Type |-> "TXT", Value |-> quotedValue,
                           TTL |-> DefaultTTL]]>>, up)

----------------------------------------------------------------------------
(* The Update orchestrator *)

\* response.MappingBody
MappingBody(ownerID, location, ip, subdomain, changed, updatedAt) ==
    [OwnerID |-> ownerID, Location |-> location, IP |-> ip,
     Subdomain |-> subdomain, Changed |-> changed, UpdatedAt |-> updatedAt]

\* what a handler returns: (response.MappingResponse, nil)
Success(body) ==
    [Err |-> FALSE, Status |-> StatusOK, Description |-> "", RetryAfter |-> 0,
     Body |-> body]

\* what a handler returns: (response.MappingResponse{}, &response.RequestError{...})
Failure(status, description, retryAfter) ==
    [Err |-> TRUE, Status |-> status, Description |-> description,
     RetryAfter |-> retryAfter, Body |-> MappingBody("", "", "", "", FALSE, "")]

\* extractClientIP that leaves the white space around the first entry
extractClientIPUntrimmed(request) ==
    LET xff == IF request.XForwardedFor # ""
               THEN request.XForwardedFor
               ELSE request.xForwardedFor
    IN  IF xff # ""
        THEN SplitFirst(xff)
        ELSE IF request.SourceIP # "" THEN request.SourceIP ELSE ""

\* extractClientIP
extractClientIP(request) ==
    LET xff == IF request.XForwardedFor # ""
               THEN request.XForwardedFor
               ELSE request.xForwardedFor
    IN  IF xff # ""
        THEN TrimSpace(SplitFirst(xff))
        ELSE IF request.SourceIP # "" THEN request.SourceIP ELSE ""

\* UpdateRequest.Validate: the error, or "" for nil
Validate(request) ==
    IF request.OwnerID = "" THEN "ownerId is required"
    ELSE IF request.Location = "" THEN "location is required"
    ELSE ""

\* auth.Authenticate: the error it returns, NoAuthError for nil.  request.Auth is
\* what the credentials of the request amount to.
NoAuthError == [none |-> TRUE]

Authenticate(request) ==
    CASE request.Auth = "ok" -> NoAuthError
      [] request.Auth = "noToken" ->
            Failure(StatusUnauthorized, "missing or invalid authorization header", 0)
      [] request.Auth = "badKey" ->
            Failure(StatusUnauthorized, "invalid credentials", 0)
      [] request.Auth = "storeDown" ->
            Failure(StatusInternalServerError, "authentication failed", 0)

\* newMapping without the update of the rate-limit counters
newMappingWithoutCounters(existing, request, subdomain, ip, t) ==
    LET isNew == existing = NoMapping
        base == IF ~isNew
                THEN existing
                ELSE [OwnerID |-> request.OwnerID,
                      LocationName |-> request.Location,
                      IP |-> "", Subdomain |-> subdomain,
                      UpdatedAt |-> ZeroTime, LastIPChangeAt |-> ZeroTime,
                      HourlyChangeCount |-> 0]
    IN  [base EXCEPT !.IP = ip, !.UpdatedAt = t,
                     !.Subdomain = IF isNew THEN subdomain ELSE @]

\* newMapping that leaves the IP of an existing mapping as it was
newMappingKeepingIP(existing, request, subdomain, ip, t) ==
    LET isNew == existing = NoMapping
        base == IF ~isNew
                THEN existing
                ELSE [OwnerID |-> request.OwnerID,
                      LocationName |-> request.Location,
                      IP |-> ip, Subdomain |-> subdomain,
                      UpdatedAt |-> ZeroTime, LastIPChangeAt |-> ZeroTime,
                      HourlyChangeCount |-> 0]
    IN  UpdateCounters([base EXCEPT !.UpdatedAt = t,
                                    !.Subdomain = IF isNew THEN subdomain ELSE @],
                       t)

\* Update: the mapping to store (a copy of the existing one, or a new one),
\* with the new IP, the timestamps and the counters
newMapping(existing, request, subdomain, ip, t) ==
    LET isNew == existing = NoMapping
        base == IF ~isNew
                THEN existing
                ELSE [OwnerID |-> request.OwnerID,
                      LocationName |-> request.Location,
                      IP |-> "", Subdomain |-> subdomain,
                      UpdatedAt |-> ZeroTime, LastIPChangeAt |-> ZeroTime,
                      HourlyChangeCount |-> 0]
    IN  UpdateCounters([base EXCEPT !.IP = ip, !.UpdatedAt = t,
                                    !.Subdomain = IF isNew THEN subdomain ELSE @],
                       t)

\* UpdatePersist that reports the derived label whatever label was upserted
UpdatePersistReportingDerived(st, records, request, subdomain, mapping, upsertCall, putUp) ==
    LET key == <<request.OwnerID, request.Location>>
        putCall == [call |-> "Put", mapping |-> mapping, ok |-> putUp]
        derived == GenerateSubdomain(request.OwnerID, request.Location)
    IN  IF ~putUp
        THEN [store |-> st, dns |-> records,
              calls |-> <<upsertCall, putCall>>,
              resp |-> Failure(StatusInternalServerError,
                               "failed to save mapping", 0)]
        ELSE [store |-> [st EXCEPT ![key] = mapping], dns |-> records,
              calls |-> <<upsertCall, putCall>>,
              resp |-> Success(MappingBody(mapping.OwnerID, mapping.LocationName,
                                           mapping.IP, FormatFQDN(derived), TRUE,
                                           FormatRFC3339(mapping.UpdatedAt)))]

\* UpdatePersist that tries the put once more when it fails
UpdatePersistRetrying(st, records, request, subdomain, mapping, upsertCall, putUp) ==
    LET key == <<request.OwnerID, request.Location>>
        putCall == [call |-> "Put", mapping |-> mapping, ok |-> putUp]
    IN  IF ~putUp
        THEN [store |-> st, dns |-> records,
              calls |-> <<upsertCall, putCall, putCall>>,
              resp |-> Failure(StatusInternalServerError,
                               "failed to save mapping", 0)]
        ELSE [store |-> [st EXCEPT ![key] = mapping], dns |-> records,
              calls |-> <<upsertCall, putCall>>,
              resp |-> Success(MappingBody(mapping.OwnerID, mapping.LocationName,
                                           mapping.IP, FormatFQDN(subdomain), TRUE,
                                           FormatRFC3339(mapping.UpdatedAt)))]

\* the part of Update after the DNS record was upserted: records is the record
\* set after the upsert
UpdatePersist(st, records, request, subdomain, mapping, upsertCall, putUp) ==
    LET key == <<request.OwnerID, request.Location>>
        putCall == [call |-> "Put", mapping |-> mapping, ok |-> putUp]
    IN  IF ~putUp
        THEN [store |-> st, dns |-> records,
              calls |-> <<upsertCall, putCall>>,
              resp |-> Failure(StatusInternalServerError,
                               "failed to save mapping", 0)]
        ELSE [store |-> [st EXCEPT ![key] = mapping], dns |-> records,
              calls |-> <<upsertCall, putCall>>,
              resp |-> Success(MappingBody(mapping.OwnerID, mapping.LocationName,
                                           mapping.IP, FormatFQDN(subdomain), TRUE,
                                           FormatRFC3339(mapping.UpdatedAt)))]

\* Put that adds the change to the count stored at the time of the write
PutAddingToStoredCount(st, mapping) ==
    LET key == <<mapping.OwnerID, mapping.LocationName>>
    IN  [st EXCEPT ![key] =
            IF st[key] = NoMapping
               \/ TruncateHour(st[key].LastIPChangeAt) # TruncateHour(mapping.LastIPChangeAt)
            THEN mapping
            ELSE [mapping EXCEPT !.HourlyChangeCount = st[key].HourlyChangeCount + 1]]

\* DynamoDBRepository.Put: PutItem replaces the item of the key, whatever it holds
Put(st, mapping) ==
    [st EXCEPT ![<<mapping.OwnerID, mapping.LocationName>>] = mapping]

UpsertCall(subdomain, ip, ok) ==
    [call |-> "UpsertRecord", subdomain |-> subdomain, ip |-> ip, ok |-> ok]

\* UpdateWrite that goes on to the store when the DNS upsert failed
UpdateWriteIgnoringDNSError(st, records, t, request, ip, existing, subdomain, dnsUp, putUp) ==
    LET upsert == UpsertRecord(records, subdomain, ip, dnsUp)
    IN  UpdatePersist(st, upsert.records, request, subdomain,
                      newMapping(existing, request, subdomain, ip, t),
                      UpsertCall(subdomain, ip, upsert.ok), putUp)

\* the part of Update after the rate limiter allowed the change
UpdateWrite(st, records, t, request, ip, existing, subdomain, dnsUp, putUp) ==
    LET upsert == UpsertRecord(records, subdomain, ip, dnsUp)
    IN  IF ~upsert.ok
        THEN [store |-> st, dns |-> records,
              calls |-> <<UpsertCall(subdomain, ip, FALSE)>>,
              resp |-> Failure(StatusInternalServerError,
                               "failed to update DNS record", 0)]
        ELSE UpdatePersist(st, upsert.records, request, subdomain,
                           newMapping(existing, request, subdomain, ip, t),
                           UpsertCall(subdomain, ip, TRUE), putUp)

\* ipChanged without the comparison of the addresses
ipChangedAlways(existing, ip) == TRUE

\* Update: whether the request changes the mapping's IP (isNew is existing = NoMapping)
ipChanged(existing, ip) ==
    existing = NoMapping \/ existing.IP # ip

\* subdomainOf that derives the label whatever is stored
subdomainOfDerived(existing, ownerID, location) ==
    GenerateSubdomain(ownerID, location)

\* Update: the stored subdomain when there is one, the derived label otherwise
subdomainOf(existing, ownerID, location) ==
    IF existing # NoMapping /\ existing.Subdomain # ""
    THEN existing.Subdomain
    ELSE GenerateSubdomain(ownerID, location)

\* UpdateCompare with the rate limiter consulted after the DNS upsert
UpdateCompareLimitAfterUpsert(st, records, t, request, ip, existing, dnsUp, putUp) ==
    LET subdomain == subdomainOf(existing, request.OwnerID, request.Location)
        rateLimitResult == Check(existing, t)
        upsert == UpsertRecord(records, subdomain, ip, dnsUp)
    IN  IF ~ipChanged(existing, ip)
        THEN [store |-> st, dns |-> records, calls |-> <<>>,
              resp |-> Success(MappingBody(existing.OwnerID, existing.LocationName,
                                           existing.IP, FormatFQDN(subdomain), FALSE,
                                           FormatRFC3339(existing.UpdatedAt)))]
        ELSE IF ~rateLimitResult.Allowed
        THEN [store |-> st, dns |-> upsert.records,
              calls |-> <<UpsertCall(subdomain, ip, upsert.ok)>>,
              resp |-> Failure(StatusTooManyRequests,
                               "rate limit exceeded: maximum 2 IP changes per hour",
                               WholeSeconds(rateLimitResult.RetryAfter))]
        ELSE UpdateWrite(st, records, t, request, ip, existing, subdomain,
                         dnsUp, putUp)

\* the part of Update after the mapping was read
UpdateCompare(st, records, t, request, ip, existing, dnsUp, putUp) ==
    LET subdomain == subdomainOf(existing, request.OwnerID, request.Location)
        rateLimitResult == Check(existing, t)
    IN  IF ~ipChanged(existing, ip)
        THEN [store |-> st, dns |-> records, calls |-> <<>>,
              resp |-> Success(MappingBody(existing.OwnerID, existing.LocationName,
                                           existing.IP, FormatFQDN(subdomain), FALSE,
                                           FormatRFC3339(existing.UpdatedAt)))]
        ELSE IF ~rateLimitResult.Allowed
        THEN [store |-> st, dns |-> records, calls |-> <<>>,
              resp |-> Failure(StatusTooManyRequests,
                               "rate limit exceeded: maximum 2 IP changes per hour",
                               WholeSeconds(rateLimitResult.RetryAfter))]
        ELSE UpdateWrite(st, records, t, request, ip, existing, subdomain,
                         dnsUp, putUp)

\* handlers.Update at time t on store st and record set records; getUp, dnsUp
\* and putUp are whether the store read, the DNS call and the store write succeed.
\* The result: the store and records afterwards, the backend calls made after
\* authentication, the candidate IP ("" when none was determined) and the response.
Update(st, records, t, request, getUp, dnsUp, putUp) ==
    LET clean(resp) == [store |-> st, dns |-> records, calls |-> <<>>,
                        ip |-> "", resp |-> resp]
        ip == extractClientIP(request)
        key == <<request.OwnerID, request.Location>>
        getCall == [call |-> "Get", ok |-> getUp]
    IN  IF request.Body = "malformed"
        THEN clean(Failure(StatusBadRequest, "invalid request body", 0))
        ELSE IF Validate(request) # ""
        THEN clean(Failure(StatusBadRequest, Validate(request), 0))
        ELSE IF Authenticate(request) # NoAuthError
        THEN clean(Authenticate(request))
        ELSE IF ip = ""
        THEN clean(Failure(StatusBadRequest, "could not determine client IP", 0))
        ELSE IF ~getUp
        THEN [store |-> st, dns |-> records, calls |-> <<getCall>>, ip |-> ip,
              resp |-> Failure(StatusInternalServerError, "failed to get mapping", 0)]
        ELSE LET r == UpdateCompare(st, records, t, request, ip, st[key],
                                    dnsUp, putUp)
             IN  [store |-> r.store, dns |-> r.dns,
                  calls |-> <<getCall>> \o r.calls, ip |-> ip, resp |-> r.resp]

----------------------------------------------------------------------------
(* The subdomain migration operator *)

\* the errors the backends return to the migration, one per call site
ErrGetItem == "dynamodb: GetItem failed"
ErrUpdateItem == "dynamodb: UpdateItem failed"
ErrRoute53 == "route53: ChangeResourceRecordSets failed"
ErrRoute53Rollback == "route53: ChangeResourceRecordSets failed (rollback)"

\* fmt.Errorf(message + ": %w", cause)
Errorf(message, cause) == [Err |-> TRUE, Message |-> message, Cause |-> cause]

\* getMapping without the check of the IP
getMappingAnyIP(st, ownerID, location, getUp) ==
    LET item == st[<<ownerID, location>>]
    IN  IF ~getUp THEN [err |-> ErrGetItem]
        ELSE IF item = NoMapping THEN [err |-> "mapping not found"]
        ELSE [err |-> "", Subdomain |-> item.Subdomain, IP |-> item.IP]

\* SubdomainService.getMapping: the mappingRecord, or the error
getMapping(st, ownerID, location, getUp) ==
    LET item == st[<<ownerID, location>>]
    IN  IF ~getUp THEN [err |-> ErrGetItem]
        ELSE IF item = NoMapping THEN [err |-> "mapping not found"]
        ELSE IF item.IP = "" THEN [err |-> "mapping has no IP address"]
        ELSE [err |-> "", Subdomain |-> item.Subdomain, IP |-> item.IP]

\* the change batch of a migration as the provider receives it
BatchCall(oldSubdomain, newSubdomain, ip, ok) ==
    [call |-> "ChangeResourceRecordSets",
     delete |-> oldSubdomain \o "." \o RootDomain,
     create |-> newSubdomain \o "." \o RootDomain,
     ip |-> ip, ok |-> ok]

\* SubdomainService.updateRoute53: one batch, DELETE old then CREATE new; the
\* result carries the call made
updateRoute53(records, oldSubdomain, newSubdomain, ip, up) ==
    LET oldRecordName == oldSubdomain \o "." \o RootDomain
        newRecordName == newSubdomain \o "." \o RootDomain
        r == ChangeResourceRecordSets(records,
                <<Change("DELETE", oldRecordName, ip),
                  Change("CREATE", newRecordName, ip)>>, up)
    IN  [ok |-> r.ok, records |-> r.records,
         call |-> BatchCall(oldSubdomain, newSubdomain, ip, r.ok)]

\* updateDynamoDB that writes the item anew, its counters reset
updateDynamoDBResetting(st, ownerID, location, newSubdomain) ==
    [st EXCEPT ![<<ownerID, location>>] =
        [@ EXCEPT !.Subdomain = newSubdomain, !.HourlyChangeCount = 0]]

\* SubdomainService.updateDynamoDB: SET Subdomain = :subdomain
updateDynamoDB(st, ownerID, location, newSubdomain) ==
    [st EXCEPT ![<<ownerID, location>>].Subdomain = newSubdomain]

\* the rollback with the subdomains not swapped: the migration's batch again
rollbackRoute53NotReversed(records, oldSubdomain, newSubdomain, ip, up) ==
    updateRoute53(records, oldSubdomain, newSubdomain, ip, up)

\* ChangeSubdomain: the rollback of the DNS change, updateRoute53 from new to old
rollbackRoute53(records, oldSubdomain, newSubdomain, ip, up) ==
    updateRoute53(records, newSubdomain, oldSubdomain, ip, up)

\* ChangeSubdomainPhases that submits the reverse batch when the first one failed
ChangeSubdomainPhasesUndoingFailure(st, records, input, mapping, dnsUp, updateUp, rollbackUp) ==
    LET oldSubdomain == IF mapping.Subdomain = ""
                        THEN GenerateSubdomain(input.OwnerID, input.Location)
                        ELSE mapping.Subdomain
        ip == mapping.IP
        getCall == [call |-> "GetItem", ok |-> TRUE]
        phaseA == updateRoute53(records, oldSubdomain, input.NewSubdomain, ip, dnsUp)
        callB == [call |-> "UpdateItem", subdomain |-> input.NewSubdomain,
                  ok |-> updateUp]
        rollback == rollbackRoute53(phaseA.records, oldSubdomain, input.NewSubdomain,
                                    ip, rollbackUp)
    IN  IF ~phaseA.ok
        THEN [store |-> st, dns |-> rollback.records,
              calls |-> <<getCall, phaseA.call, rollback.call>>,
              out |-> Errorf("failed to update Route53", ErrRoute53)]
        ELSE IF ~updateUp
        THEN [store |-> st, dns |-> rollback.records,
              calls |-> <<getCall, phaseA.call, callB, rollback.call>>,
              out |-> Errorf("failed to update DynamoDB", ErrUpdateItem)]
        ELSE [store |-> updateDynamoDB(st, input.OwnerID, input.Location,
                                       input.NewSubdomain),
              dns |-> phaseA.records,
              calls |-> <<getCall, phaseA.call, callB>>,
              out |-> [Err |-> FALSE,
                       OldSubdomain |-> oldSubdomain,
                       NewSubdomain |-> input.NewSubdomain,
                       OldFQDN |-> oldSubdomain \o "." \o RootDomain,
                       NewFQDN |-> input.NewSubdomain \o "." \o RootDomain,
                       IP |-> ip]]

\* the part of ChangeSubdomain after the mapping was read
ChangeSubdomainPhases(st, records, input, mapping, dnsUp, updateUp, rollbackUp) ==
    LET oldSubdomain == IF mapping.Subdomain = ""
                        THEN GenerateSubdomain(input.OwnerID, input.Location)
                        ELSE mapping.Subdomain
        ip == mapping.IP
        getCall == [call |-> "GetItem", ok |-> TRUE]
        phaseA == updateRoute53(records, oldSubdomain, input.NewSubdomain, ip, dnsUp)
        callB == [call |-> "UpdateItem", subdomain |-> input.NewSubdomain,
                  ok |-> updateUp]
        rollback == rollbackRoute53(phaseA.records, oldSubdomain, input.NewSubdomain,
                                    ip, rollbackUp)
    IN  IF ~phaseA.ok
        THEN [store |-> st, dns |-> records, calls |-> <<getCall, phaseA.call>>,
              out |-> Errorf("failed to update Route53", ErrRoute53)]
        ELSE IF ~updateUp
        THEN [store |-> st, dns |-> rollback.records,
              calls |-> <<getCall, phaseA.call, callB, rollback.call>>,
              out |-> Errorf("failed to update DynamoDB", ErrUpdateItem)]
        ELSE [store |-> updateDynamoDB(st, input.OwnerID, input.Location,
                                       input.NewSubdomain),
              dns |-> phaseA.records,
              calls |-> <<getCall, phaseA.call, callB>>,
              out |-> [Err |-> FALSE,
                       OldSubdomain |-> oldSubdomain,
                       NewSubdomain |-> input.NewSubdomain,
                       OldFQDN |-> oldSubdomain \o "." \o RootDomain,
                       NewFQDN |-> input.NewSubdomain \o "." \o RootDomain,
                       IP |-> ip]]

\* SubdomainService.ChangeSubdomain on store st and record set records; getUp,
\* dnsUp, updateUp and rollbackUp are whether the store read, the DNS batch, the
\* store update and the compensating DNS batch succeed.
ChangeSubdomain(st, records, input, getUp, dnsUp, updateUp, rollbackUp) ==
    LET mapping == getMapping(st, input.OwnerID, input.Location, getUp)
    IN  IF mapping.err # ""
        THEN [store |-> st, dns |-> records,
              calls |-> <<[call |-> "GetItem", ok |-> getUp]>>,
              out |-> Errorf("failed to get mapping", mapping.err)]
        ELSE ChangeSubdomainPhases(st, records, input, mapping,
                                   dnsUp, updateUp, rollbackUp)

----------------------------------------------------------------------------
(* The consensus IP resolver *)

consensusRequired == 2

\* len(authorities[IPv4])
NumAuthorities == 4

Authorities == 1 .. NumAuthorities

\* a nil error
Nil == "nil"

ErrNoConsensus == "authorities could not reach consensus on IP address"
ErrDo == "Get: context deadline exceeded"
ErrStatusCode == "unexpected status code 500"
ErrReadBody == "unable to read body"

\* what an authority's HTTP exchange comes to: the error of Do, the status
\* code, the body and the error of reading it
Reply(do, status, body, read) ==
    [Do |-> do, StatusCode |-> status, Body |-> body, ReadAll |-> read]

\* the exchange of a request whose context is done
Cancelled == Reply(ErrDo, 0, "", Nil)

Replies ==
    <<Reply(Nil, StatusOK, "x", Nil),
      Reply(Nil, StatusOK, " x\n", Nil),
      Reply(Nil, StatusOK, "\ty ", Nil),
      Reply(Nil, StatusOK, "z", Nil),
      Reply(Nil, StatusOK, " ", Nil),
      Reply(Nil, StatusInternalServerError, "x", Nil),
      Reply(Nil, StatusOK, "", ErrReadBody)>>

\* the authorities are interchangeable: one assignment of replies to
\* authorities stands for all its permutations
Assignments ==
    {f \in [Authorities -> DOMAIN Replies] :
        \A a \in Authorities \ {NumAuthorities} : f[a] <= f[a + 1]}

\* result{ip, err}
Result(ip, err) == [ip |-> ip, err |-> err]

\* authority.requestExternalIP
requestExternalIP(reply) ==
    IF reply.Do # Nil THEN Result("", reply.Do)
    ELSE IF reply.StatusCode # StatusOK THEN Result("", ErrStatusCode)
    ELSE IF reply.ReadAll # Nil THEN Result("", ErrReadBody)
    ELSE Result(TrimSpace(reply.Body), Nil)

\* ipCounts[ip] of a Go map: zero for a key never stored
Count(counts, ip) == IF ip \in DOMAIN counts THEN counts[ip] ELSE 0

Running == [done |-> FALSE]
Returned(ip, err) == [done |-> TRUE, ip |-> ip, err |-> err]

\* one turn of the collecting loop that counts an error's empty address too
collectCountingErrors(counts, lastE, res) ==
    LET n == Count(counts, res.ip) + 1
    IN  [ipCounts |-> [ip \in DOMAIN counts \cup {res.ip} |->
                          IF ip = res.ip THEN n ELSE counts[ip]],
         lastErr |-> IF res.err # Nil THEN res.err ELSE lastE,
         ret |-> IF n >= consensusRequired THEN Returned(res.ip, Nil)
                 ELSE Running]

\* one turn of the collecting loop that gives up on the first error
collectAbortingOnError(counts, lastE, res) ==
    IF res.err # Nil
    THEN [ipCounts |-> counts, lastErr |-> res.err, ret |-> Returned("", res.err)]
    ELSE LET n == Count(counts, res.ip) + 1
         IN  [ipCounts |-> [ip \in DOMAIN counts \cup {res.ip} |->
                               IF ip = res.ip THEN n ELSE counts[ip]],
              lastErr |-> lastE,
              ret |-> IF n >= consensusRequired THEN Returned(res.ip, Nil)
                      ELSE Running]

\* one turn of the collecting loop of queryWithConsensus, on one result
collect(counts, lastE, res) ==
    IF res.err # Nil
    THEN [ipCounts |-> counts, lastErr |-> res.err, ret |-> Running]
    ELSE LET n == Count(counts, res.ip) + 1
         IN  [ipCounts |-> [ip \in DOMAIN counts \cup {res.ip} |->
                               IF ip = res.ip THEN n ELSE counts[ip]],
              lastErr |-> lastE,
              ret |-> IF n >= consensusRequired THEN Returned(res.ip, Nil)
                      ELSE Running]

\* the end of queryWithConsensus that forgets the authority errors
noConsensusOnly(lastE) == Returned("", ErrNoConsensus)

\* the end of queryWithConsensus, once the channel is closed and drained
noConsensus(lastE) ==
    IF lastE # Nil THEN Returned("", lastE) ELSE Returned("", ErrNoConsensus)

\* queryWithConsensus has been called: goroutines started, nothing received
ResolverStart(rs) ==
    /\ replies = rs
    /\ workers = [a \in Authorities |-> [pc |-> "request"]]
    /\ results = <<>>
    /\ closed = FALSE
    /\ ctxDone = FALSE
    /\ ipCounts = <<>>
    /\ lastErr = Nil
    /\ received = <<>>
    /\ ret = Running
    /\ lastIP = ""

ResolverInit ==
    \E f \in Assignments : ResolverStart([a \in Authorities |-> Replies[f[a]]])

\* the resolver of a client whose authorities are out of reach
ResolverIdle == ResolverStart([a \in Authorities |-> Cancelled])

\* a worker's request ends; one made with a context that is done fails in Do
WorkerRequest(a) ==
    /\ workers[a].pc = "request"
    /\ \E reply \in {IF ctxDone THEN Cancelled ELSE replies[a]} :
         workers' = [workers EXCEPT
                        ![a] = [pc |-> "select",
                                res |-> requestExternalIP(reply)]]
    /\ UNCHANGED lastIP
    /\ UNCHANGED <<replies, results, closed, ctxDone, ipCounts, lastErr, received,
                   ret>>
    /\ UNCHANGED serverVars

\* WorkerSend on a channel with one slot
WorkerSendOneSlot(a) ==
    /\ workers[a].pc = "select"
    /\ Len(results) < 1
    /\ results' = Append(results, [from |-> a, ip |-> workers[a].res.ip,
                                   err |-> workers[a].res.err])
    /\ workers' = [workers EXCEPT ![a] = [pc |-> "done"]]
    /\ UNCHANGED lastIP
    /\ UNCHANGED <<replies, closed, ctxDone, ipCounts, lastErr, received,
                   ret>>
    /\ UNCHANGED serverVars

\* a worker's select takes the send: the channel has room for every worker
WorkerSend(a) ==
    /\ workers[a].pc = "select"
    /\ Len(results) < NumAuthorities
    /\ results' = Append(results, [from |-> a, ip |-> workers[a].res.ip,
                                   err |-> workers[a].res.err])
    /\ workers' = [workers EXCEPT ![a] = [pc |-> "done"]]
    /\ UNCHANGED lastIP
    /\ UNCHANGED <<replies, closed, ctxDone, ipCounts, lastErr, received,
                   ret>>
    /\ UNCHANGED serverVars

\* a worker's select takes <-ctx.Done() and its result is dropped
WorkerDrop(a) ==
    /\ workers[a].pc = "select"
    /\ ctxDone
    /\ workers' = [workers EXCEPT ![a] = [pc |-> "done"]]
    /\ UNCHANGED lastIP
    /\ UNCHANGED <<replies, results, closed, ctxDone, ipCounts, lastErr, received,
                   ret>>
    /\ UNCHANGED serverVars

\* wg.Wait() is over: the channel is closed
Close ==
    /\ ~closed
    /\ \A a \in Authorities : workers[a].pc = "done"
    /\ closed' = TRUE
    /\ UNCHANGED lastIP
    /\ UNCHANGED <<replies, workers, results, ctxDone, ipCounts, lastErr, received,
                   ret>>
    /\ UNCHANGED serverVars

\* the collector receives the next result
Receive ==
    /\ ~ret.done
    /\ results # <<>>
    /\ \E r \in {collect(ipCounts, lastErr, Head(results))} :
         /\ ipCounts' = r.ipCounts
         /\ lastErr' = r.lastErr
         /\ ret' = r.ret
    /\ received' = Append(received, Head(results))
    /\ results' = Tail(results)
    /\ UNCHANGED lastIP
    /\ UNCHANGED <<replies, workers, closed, ctxDone>>
    /\ UNCHANGED serverVars

\* the range loop ends on the closed and drained channel
Finish ==
    /\ ~ret.done
    /\ results = <<>>
    /\ closed
    /\ ret' = noConsensus(lastErr)
    /\ UNCHANGED lastIP
    /\ UNCHANGED <<replies, workers, results, closed, ctxDone, ipCounts, lastErr,
                   received>>
    /\ UNCHANGED serverVars

\* the caller's deadline expires, or the caller cancels
Deadline ==
    /\ ~ctxDone
    /\ ctxDone' = TRUE
    /\ UNCHANGED lastIP
    /\ UNCHANGED <<replies, workers, results, closed, ipCounts, lastErr, received,
                   ret>>
    /\ UNCHANGED serverVars

Worker ==
    \E a \in Authorities :
        \/ WorkerRequest(a)
        \/ WorkerSend(a)
        \/ WorkerDrop(a)

NextResolver == Worker \/ Close \/ Receive \/ Finish \/ Deadline

----------------------------------------------------------------------------
(* The server: requests handled one after another *)

Min(a, b) == IF a < b THEN a ELSE b

\* the two invocations of Update that may run at once; one that is not running
Invocations == {1, 2}

Idle == [pc |-> "idle"]

\* the server with an empty store and no records
ServerInit ==
    /\ now = FirstClock
    /\ store = [p \in Pairs |-> NoMapping]
    /\ dns = [n \in RecordNames |-> NoRecord]
    /\ last = [op |-> "Init"]
    /\ accepted = [p \in Pairs |-> [hour |-> ZeroTime, n |-> 0]]
    /\ log = <<>>
    /\ inflight = [i \in Invocations |-> Idle]

Init == ServerInit /\ ResolverIdle

\* the wall clock advances
Tick ==
    /\ now < LastClock
    /\ now' = now + 1
    /\ last' = [op |-> "Tick"]
    /\ UNCHANGED <<store, dns, accepted, log, inflight>>
    /\ UNCHANGED resolverVars

\* the count of Updated responses of a pair in the hour of t, one more
CountAccepted(a, t) ==
    IF a.hour = TruncateHour(t)
    THEN [a EXCEPT !.n = Min(@ + 1, MaxChangesPerHour + 1)]
    ELSE [hour |-> TruncateHour(t), n |-> 1]

\* one Update request handled from start to end
UpdateRequest(request, getUp, dnsUp, putUp) ==
    \E r \in {Update(store, dns, now, request, getUp, dnsUp, putUp)} :
    LET key == <<request.OwnerID, request.Location>>
    IN  /\ store' = r.store
        /\ dns' = r.dns
        /\ last' = [op |-> "Update", key |-> key, ip |-> r.ip, at |-> now,
                    store |-> store, dns |-> dns, calls |-> r.calls,
                    resp |-> r.resp]
        /\ accepted' = IF ~r.resp.Err /\ r.resp.Body.Changed
                       THEN [accepted EXCEPT ![key] = CountAccepted(@, now)]
                       ELSE accepted
        /\ UNCHANGED <<now, inflight>>
        /\ UNCHANGED resolverVars

\* one migration run from start to end
Migration(input, getUp, dnsUp, updateUp, rollbackUp) ==
    \E r \in {ChangeSubdomain(store, dns, input, getUp, dnsUp, updateUp, rollbackUp)} :
        /\ store' = r.store
        /\ dns' = r.dns
        /\ last' = [op |-> "ChangeSubdomain",
                    key |-> <<input.OwnerID, input.Location>>,
                    new |-> input.NewSubdomain, at |-> now,
                    store |-> store, dns |-> dns, calls |-> r.calls,
                    resp |-> r.out]
        /\ UNCHANGED <<now, accepted, log, inflight>>
        /\ UNCHANGED resolverVars

\* the backends a call reaches only when the calls before it succeeded
After(up) == IF up THEN BOOLEAN ELSE {TRUE}

HandleUpdate ==
    \/ \E request \in ValidRequests, getUp \in BOOLEAN :
         \E dnsUp \in After(getUp) :
           \E putUp \in After(getUp /\ dnsUp) :
              UpdateRequest(request, getUp, dnsUp, putUp) /\ UNCHANGED log
    \/ \E request \in InvalidRequests :
         UpdateRequest(request, TRUE, TRUE, TRUE) /\ UNCHANGED log

HandleMigration ==
    \E input \in ChangeSubdomainInputs, getUp \in BOOLEAN :
      \E dnsUp \in After(getUp) :
        \E updateUp \in After(getUp /\ dnsUp) :
          \E rollbackUp \in After(getUp /\ dnsUp /\ ~updateUp) :
             Migration(input, getUp, dnsUp, updateUp, rollbackUp)

Next == Tick \/ HandleUpdate \/ HandleMigration

Spec == Init /\ [][Next]_vars

\* the Updates of one client, one after another, with every backend up
ScenarioRequest(p, ip) == Request("ok", p[1], p[2], "", "ok", Transport(ip, "", ""))

ScenarioUpdate(p, ip) ==
    /\ Len(log) < ScenarioLength
    /\ UpdateRequest(ScenarioRequest(p, ip), TRUE, TRUE, TRUE)
    /\ log' = Append(log, [key |-> p, ip |-> ip, at |-> now, resp |-> last'.resp,
                           store |-> store', dns |-> dns'])

NextScenario == Tick \/ \E p \in Pairs, ip \in IPs : ScenarioUpdate(p, ip)

SpecScenario == Init /\ [][NextScenario]_vars

\* requests of every shape, one after another, with every backend up
AddressRequests ==
    ValidRequests \cup InvalidRequests
    \cup {Request("ok", p[1], p[2], ip, "ok", tr) :
            p \in Pairs, ip \in {"y", "not-an-ip"},
            tr \in {Transport("x", "", ""), Transport("", "", "")}}

AddressUpdate(request) ==
    /\ Len(log) < AddressLength
    /\ UpdateRequest(request, TRUE, TRUE, TRUE)
    /\ log' = Append(log, [request |-> request, ip |-> last'.ip, at |-> now,
                           calls |-> last'.calls, resp |-> last'.resp,
                           before |-> store, store |-> store', dns |-> dns'])

NextAddress == Tick \/ \E request \in AddressRequests : AddressUpdate(request)

SpecAddress == Init /\ [][NextAddress]_vars

\* the Updates of one client, one after another, the store write failing at times
WindowUpdate(p, ip, putUp) ==
    /\ Len(log) < WindowLength
    /\ UpdateRequest(ScenarioRequest(p, ip), TRUE, TRUE, putUp)
    /\ log' = Append(log, [request |-> ScenarioRequest(p, ip), ip |-> last'.ip,
                           at |-> now, calls |-> last'.calls, resp |-> last'.resp,
                           before |-> store, store |-> store', dns |-> dns'])

NextWindow ==
    \/ Tick
    \/ \E p \in Pairs, ip \in IPs, putUp \in BOOLEAN : WindowUpdate(p, ip, putUp)

SpecWindow == Init /\ [][NextWindow]_vars

\* the items the migration may find in the table: with or without an IP, with or
\* without a Subdomain attribute
MigrationMappings ==
    {[OwnerID |-> p[1], LocationName |-> p[2], IP |-> ip,
      Subdomain |-> IF derived THEN GenerateSubdomain(p[1], p[2]) ELSE "",
      UpdatedAt |-> ZeroTime, LastIPChangeAt |-> ZeroTime, HourlyChangeCount |-> 0] :
        p \in Pairs, ip \in IPs \cup {""}, derived \in BOOLEAN}

\* the table holds one such item or none; the zone holds the A record of the
\* derived label or none
InitMigration ==
    /\ now = FirstClock
    /\ \/ \E m \in MigrationMappings :
             store = [p \in Pairs |-> IF p = <<m.OwnerID, m.LocationName>>
                                      THEN m ELSE NoMapping]
       \/ store = [p \in Pairs |-> NoMapping]
    /\ \E p \in Pairs, r \in {NoRecord} \cup {ARecord(ip) : ip \in IPs} :
          dns = [n \in RecordNames |->
                    IF n = FormatFQDN(GenerateSubdomain(p[1], p[2]))
                    THEN r ELSE NoRecord]
    /\ last = [op |-> "Init"]
    /\ accepted = [p \in Pairs |-> [hour |-> ZeroTime, n |-> 0]]
    /\ log = <<>>
    /\ inflight = [i \in Invocations |-> Idle]
    /\ ResolverIdle

NextMigration == Tick \/ HandleMigration

SpecMigration == InitMigration /\ [][NextMigration]_vars

\* the operations of the DNS service applied to a zone, once and once more
InitUpsert ==
    /\ now = FirstClock
    /\ store = [p \in Pairs |-> NoMapping]
    /\ dns \in [{FormatFQDN(n) : n \in Labels \cup ChallengeNames} ->
                   {NoRecord} \cup {ARecord(ip) : ip \in IPs}
                   \cup {TXTRecord(v) : v \in TxtValues}]
    /\ \A l \in Labels : dns[FormatFQDN(l)] \notin {TXTRecord(v) : v \in TxtValues}
    /\ \A n \in ChallengeNames : dns[FormatFQDN(n)] \notin {ARecord(ip) : ip \in IPs}
    /\ last = [op |-> "Init"]
    /\ accepted = [p \in Pairs |-> [hour |-> ZeroTime, n |-> 0]]
    /\ log = <<>>
    /\ inflight = [i \in Invocations |-> Idle]
    /\ ResolverIdle

\* the record of an operation applied: its arguments, the zone before it,
\* whether the provider was reachable, whether the call succeeded and the
\* batches it handed to the provider, each time
Applied(op, name, value, up, r) ==
    IF last.op = "Init"
    THEN [op |-> op, name |-> name, value |-> value, n |-> 1, dns |-> dns,
          up |-> <<up>>, ok |-> <<r.ok>>, submitted |-> <<r.submitted>>,
          once |-> r.records]
    ELSE [last EXCEPT !.n = 2, !.up = Append(@, up), !.ok = Append(@, r.ok),
                      !.submitted = Append(@, r.submitted)]

\* the same call as the one just applied, for the second time
Again(op, name, value) ==
    /\ last.op = op /\ last.n = 1
    /\ last.name = name /\ last.value = value

ApplyUpsertRecord(subdomain, ip, up) ==
    /\ last.op = "Init" \/ Again("UpsertRecord", subdomain, ip)
    /\ \E r \in {UpsertRecord(dns, subdomain, ip, up)} :
          /\ dns' = r.records
          /\ last' = Applied("UpsertRecord", subdomain, ip, up, r)
    /\ UNCHANGED <<now, store, accepted, log, inflight>>
    /\ UNCHANGED resolverVars

ApplyUpsertTXTRecord(name, value, up) ==
    /\ last.op = "Init" \/ Again("UpsertTXTRecord", name, value)
    /\ \E r \in {UpsertTXTRecord(dns, name, value, up)} :
          /\ dns' = r.records
          /\ last' = Applied("UpsertTXTRecord", name, value, up, r)
    /\ UNCHANGED <<now, store, accepted, log, inflight>>
    /\ UNCHANGED resolverVars

ApplyDeleteTXTRecord(name, value, up) ==
    /\ last.op = "Init" \/ Again("DeleteTXTRecord", name, value)
    /\ \E r \in {DeleteTXTRecord(dns, name, value, up)} :
          /\ dns' = r.records
          /\ last' = Applied("DeleteTXTRecord", name, value, up, r)
    /\ UNCHANGED <<now, store, accepted, log, inflight>>
    /\ UNCHANGED resolverVars

NextUpsert ==
    \/ \E subdomain \in Labels, ip \in IPs, up \in BOOLEAN :
         ApplyUpsertRecord(subdomain, ip, up)
    \/ \E name \in ChallengeNames, value \in TxtValues, up \in BOOLEAN :
         ApplyUpsertTXTRecord(name, value, up)
    \/ \E name \in ChallengeNames, value \in TxtValues, up \in BOOLEAN :
         ApplyDeleteTXTRecord(name, value, up)

SpecUpsert == InitUpsert /\ [][NextUpsert]_vars

\* GenerateSubdomain called for one pair after another, at any time
DerivationPairs ==
    ({"acme", "other"} \X {"home", "office"})
    \cup ({"my-home-lab"} \X {"home", "office"})
    \cup {<<"acme-corp", "office">>, <<"homelab", "primary">>}

ApplyGenerateSubdomain(p) ==
    /\ last' = [op |-> "GenerateSubdomain", key |-> p, at |-> now,
                label |-> GenerateSubdomain(p[1], p[2]),
                before |-> IF last.op = "GenerateSubdomain"
                           THEN <<[key |-> last.key, label |-> last.label]>>
                           ELSE <<>>]
    /\ UNCHANGED <<now, store, dns, accepted, log, inflight>>
    /\ UNCHANGED resolverVars

NextDerivation == Tick \/ \E p \in DerivationPairs : ApplyGenerateSubdomain(p)

SpecDerivation == Init /\ [][NextDerivation]_vars

\* Update invocations running side by side on one store: each reads the mapping,
\* decides, upserts the DNS record and puts the mapping, other invocations
\* taking their steps in between
InFlight(i) == inflight[i].pc # "idle"

\* an invocation returns: its slot is free and the client's log has its outcome
Return(i, existing, resp) ==
    /\ inflight' = [inflight EXCEPT ![i] = Idle]
    /\ log' = Append(log, [id |-> i, request |-> inflight[i].request,
                           ip |-> inflight[i].ip, at |-> inflight[i].at,
                           read |-> existing, resp |-> resp,
                           store |-> store', dns |-> dns'])

\* a request arrives: now and the client IP are taken
RaceStart(i, request) ==
    /\ ~InFlight(i)
    /\ Len(log) + Cardinality({j \in Invocations : InFlight(j)}) < RaceRequests
    /\ inflight' = [inflight EXCEPT
                       ![i] = [pc |-> "get", request |-> request,
                               ip |-> extractClientIP(request), at |-> now]]
    /\ UNCHANGED <<now, store, dns, last, accepted, log>>
    /\ UNCHANGED resolverVars

\* the requests of the clients that run side by side
ConcurrentRequests == {ScenarioRequest(p, ip) : p \in Pairs, ip \in IPs}

\* repo.Get, the comparison and the rate limiter
RaceGet(i) ==
    /\ inflight[i].pc = "get"
    /\ UNCHANGED <<now, store, dns, last, accepted>>
    /\ LET request == inflight[i].request
           ip == inflight[i].ip
           existing == store[<<request.OwnerID, request.Location>>]
           subdomain == subdomainOf(existing, request.OwnerID, request.Location)
           rateLimitResult == Check(existing, inflight[i].at)
       IN  IF ~ipChanged(existing, ip)
           THEN Return(i, existing,
                       Success(MappingBody(existing.OwnerID, existing.LocationName,
                                           existing.IP, FormatFQDN(subdomain), FALSE,
                                           FormatRFC3339(existing.UpdatedAt))))
           ELSE IF ~rateLimitResult.Allowed
           THEN Return(i, existing,
                       Failure(StatusTooManyRequests,
                               "rate limit exceeded: maximum 2 IP changes per hour",
                               WholeSeconds(rateLimitResult.RetryAfter)))
           ELSE /\ inflight' = [inflight EXCEPT
                                  ![i] = [pc |-> "upsert", request |-> request,
                                          ip |-> ip, at |-> inflight[i].at,
                                          existing |-> existing,
                                          subdomain |-> subdomain]]
                /\ UNCHANGED log
    /\ UNCHANGED resolverVars

\* dnsService.UpsertRecord
RaceUpsert(i) ==
    /\ inflight[i].pc = "upsert"
    /\ dns' = UpsertRecord(dns, inflight[i].subdomain, inflight[i].ip, TRUE).records
    /\ inflight' = [inflight EXCEPT ![i].pc = "put"]
    /\ UNCHANGED <<now, store, last, accepted, log>>
    /\ UNCHANGED resolverVars

\* the mapping is prepared from the one read, and repo.Put
RacePut(i) ==
    /\ inflight[i].pc = "put"
    /\ LET mapping == newMapping(inflight[i].existing, inflight[i].request,
                                 inflight[i].subdomain, inflight[i].ip,
                                 inflight[i].at)
       IN  /\ store' = Put(store, mapping)
           /\ dns' = dns
           /\ Return(i, inflight[i].existing,
                     Success(MappingBody(mapping.OwnerID, mapping.LocationName,
                                         mapping.IP,
                                         FormatFQDN(inflight[i].subdomain), TRUE,
                                         FormatRFC3339(mapping.UpdatedAt))))
    /\ UNCHANGED <<now, last, accepted>>
    /\ UNCHANGED resolverVars

\* the wall clock advances while invocations run
RaceTick ==
    /\ now < FirstClock + RaceTicks
    /\ now' = now + 1
    /\ UNCHANGED <<store, dns, last, accepted, log, inflight>>
    /\ UNCHANGED resolverVars

NextRace ==
    \/ RaceTick
    \/ \E i \in Invocations :
         \/ \E request \in ConcurrentRequests : RaceStart(i, request)
         \/ RaceGet(i)
         \/ RaceUpsert(i)
         \/ RacePut(i)

SpecRace == Init /\ [][NextRace]_vars

\* ChangeSubdomain run step by step beside the Update invocations; last holds
\* the operator's position and what it read
MigrationsRun == IF last.op = "ChangeSubdomain" THEN last.n ELSE 0

\* ChangeSubdomain returns
MigrationDone(out) ==
    last' = [op |-> "ChangeSubdomain", pc |-> "done", n |-> last.n,
             input |-> last.input, resp |-> out]

\* Step 1: getMapping
RaceGetMapping(input) ==
    /\ last.op = "Init" \/ (last.op = "ChangeSubdomain" /\ last.pc = "done")
    /\ MigrationsRun < RaceMigrations
    /\ LET mapping == getMapping(store, input.OwnerID, input.Location, TRUE)
       IN  last' = IF mapping.err # ""
                   THEN [op |-> "ChangeSubdomain", pc |-> "done", n |-> MigrationsRun + 1,
                         input |-> input,
                         resp |-> Errorf("failed to get mapping", mapping.err)]
                   ELSE [op |-> "ChangeSubdomain", pc |-> "updateRoute53",
                         n |-> MigrationsRun + 1, input |-> input,
                         ip |-> mapping.IP,
                         oldSubdomain |->
                             IF mapping.Subdomain = ""
                             THEN GenerateSubdomain(input.OwnerID, input.Location)
                             ELSE mapping.Subdomain]
    /\ UNCHANGED <<now, store, dns, accepted, log, inflight>>
    /\ UNCHANGED resolverVars

\* Step 2: updateRoute53, DELETE the old record and CREATE the new one
RaceUpdateRoute53 ==
    /\ last.op = "ChangeSubdomain" /\ last.pc = "updateRoute53"
    /\ \E r \in {updateRoute53(dns, last.oldSubdomain, last.input.NewSubdomain,
                                last.ip, TRUE)} :
          /\ dns' = r.records
          /\ IF r.ok
             THEN last' = [last EXCEPT !.pc = "updateDynamoDB"]
             ELSE MigrationDone(Errorf("failed to update Route53", ErrRoute53))
    /\ UNCHANGED <<now, store, accepted, log, inflight>>
    /\ UNCHANGED resolverVars

\* Step 3: updateDynamoDB; when it fails the rollback is next
RaceUpdateDynamoDB(updateUp) ==
    /\ last.op = "ChangeSubdomain" /\ last.pc = "updateDynamoDB"
    /\ IF updateUp
       THEN /\ store' = updateDynamoDB(store, last.input.OwnerID,
                                       last.input.Location,
                                       last.input.NewSubdomain)
            /\ MigrationDone([Err |-> FALSE,
                              OldSubdomain |-> last.oldSubdomain,
                              NewSubdomain |-> last.input.NewSubdomain,
                              OldFQDN |-> last.oldSubdomain \o "." \o RootDomain,
                              NewFQDN |-> last.input.NewSubdomain \o "." \o RootDomain,
                              IP |-> last.ip])
       ELSE /\ store' = store
            /\ last' = [last EXCEPT !.pc = "rollback"]
    /\ UNCHANGED <<now, dns, accepted, log, inflight>>
    /\ UNCHANGED resolverVars

\* the rollback of the DNS change; its error is logged
RaceRollback ==
    /\ last.op = "ChangeSubdomain" /\ last.pc = "rollback"
    /\ dns' = rollbackRoute53(dns, last.oldSubdomain, last.input.NewSubdomain,
                              last.ip, TRUE).records
    /\ MigrationDone(Errorf("failed to update DynamoDB", ErrUpdateItem))
    /\ UNCHANGED <<now, store, accepted, log, inflight>>
    /\ UNCHANGED resolverVars

\* a request arrives while the operator may be at work
InterleavedStart(i, request) ==
    /\ Len(log) + Cardinality({j \in Invocations : InFlight(j)}) < InterleavedRequests
    /\ RaceStart(i, request)

\* the wall clock reaches the next hour
HourPasses ==
    /\ now = FirstClock
    /\ now' = TruncateHour(now) + Hour
    /\ UNCHANGED <<store, dns, last, accepted, log, inflight>>
    /\ UNCHANGED resolverVars

NextInterleaved ==
    \/ HourPasses
    \/ \E i \in Invocations :
         \/ \E request \in ConcurrentRequests : InterleavedStart(i, request)
         \/ RaceGet(i)
         \/ RaceUpsert(i)
         \/ RacePut(i)
    \/ \E input \in ChangeSubdomainInputs : RaceGetMapping(input)
    \/ RaceUpdateRoute53
    \/ \E updateUp \in BOOLEAN : RaceUpdateDynamoDB(updateUp)
    \/ RaceRollback

SpecInterleaved == Init /\ [][NextInterleaved]_vars

\* Several pairs on one server and one zone: owner and location are the
\* caller's strings, hyphens and all
SharedPairs ==
    {<<"acme-corp", "office">>, <<"acme", "corp-office">>, <<"acme", "home">>}

InitShared ==
    /\ now = FirstClock
    /\ store = [p \in SharedPairs |-> NoMapping]
    /\ dns = [n \in {FormatFQDN(GenerateSubdomain(p[1], p[2])) : p \in SharedPairs}
                 |-> NoRecord]
    /\ last = [op |-> "Init"]
    /\ accepted = [p \in SharedPairs |-> [hour |-> ZeroTime, n |-> 0]]
    /\ log = <<>>
    /\ inflight = [i \in Invocations |-> Idle]
    /\ ResolverIdle

SharedRequests == {ScenarioRequest(p, ip) : p \in SharedPairs, ip \in IPs}

SharedUpdate(request) ==
    /\ UpdateRequest(request, TRUE, TRUE, TRUE)
    /\ UNCHANGED log

NextShared == \E request \in SharedRequests : SharedUpdate(request)

SpecShared == InitShared /\ [][NextShared]_vars

\* The daemon client of one pair beside the server. pubip.IP gives the daemon
\* an address or an error; its request reaches the server from the address
\* detected.
Detections == {Result(ip, Nil) : ip \in IPs} \cup {Result("", ErrNoConsensus)}

\* Client.UpdateDNS: the request is sent and the server handles it; reach is
\* whether the exchange succeeds. Any status but 200 is an error to the caller.
UpdateDNS(st, records, t, owner, location, ip, reach, getUp, dnsUp, putUp) ==
    LET request == Request("ok", owner, location, ip, "ok", Transport(ip, "", ""))
        r == Update(st, records, t, request, getUp, dnsUp, putUp)
    IN  IF ~reach
        THEN [store |-> st, dns |-> records, err |-> TRUE, status |-> 0,
              changed |-> FALSE]
        ELSE [store |-> r.store, dns |-> r.dns,
              err |-> r.resp.Status # StatusOK, status |-> r.resp.Status,
              changed |-> ~r.resp.Err /\ r.resp.Body.Changed]

\* checkAndUpdate that takes the detected IP for registered before the call
checkAndUpdateAssigningFirst(known, detection, st, records, t, key, reach, getUp, dnsUp, putUp) ==
    LET skipped(failed) == [lastIP |-> known, store |-> st, dns |-> records,
                            called |-> FALSE, err |-> failed, status |-> 0,
                            changed |-> FALSE]
        u == UpdateDNS(st, records, t, key[1], key[2], detection.ip,
                       reach, getUp, dnsUp, putUp)
    IN  IF detection.err # Nil THEN skipped(TRUE)
        ELSE IF detection.ip = known THEN skipped(FALSE)
        ELSE [lastIP |-> detection.ip, store |-> u.store, dns |-> u.dns,
              called |-> TRUE, err |-> u.err, status |-> u.status,
              changed |-> u.changed]

\* checkAndUpdate: known is *lastIP on entry, detection what pubip.IP returned
checkAndUpdate(known, detection, st, records, t, key, reach, getUp, dnsUp, putUp) ==
    LET skipped(failed) == [lastIP |-> known, store |-> st, dns |-> records,
                            called |-> FALSE, err |-> failed, status |-> 0,
                            changed |-> FALSE]
        u == UpdateDNS(st, records, t, key[1], key[2], detection.ip,
                       reach, getUp, dnsUp, putUp)
    IN  IF detection.err # Nil THEN skipped(TRUE)
        ELSE IF detection.ip = known THEN skipped(FALSE)
        ELSE [lastIP |-> IF u.err THEN known ELSE detection.ip,
              store |-> u.store, dns |-> u.dns,
              called |-> TRUE, err |-> u.err, status |-> u.status,
              changed |-> u.changed]

\* the pair the daemon is configured for
DaemonKey == <<"acme", "home">>

\* runDaemon: the initial check, or the check of one tick of the ticker; turn
\* tells a check from the one before it
CheckAndUpdate(detection, reach, getUp, dnsUp, putUp) ==
    /\ \E r \in {checkAndUpdate(lastIP, detection, store, dns, now, DaemonKey,
                                 reach, getUp, dnsUp, putUp)} :
          /\ lastIP' = r.lastIP
          /\ store' = r.store
          /\ dns' = r.dns
          /\ last' = [op |-> "checkAndUpdate", currentIP |-> detection.ip,
                      detected |-> detection.err = Nil, lastIP |-> lastIP,
                      called |-> r.called, err |-> r.err, status |-> r.status,
                      turn |-> IF last.op = "checkAndUpdate"
                               THEN 1 - last.turn ELSE 0]
          /\ accepted' = IF r.changed
                         THEN [accepted EXCEPT ![DaemonKey] = CountAccepted(@, now)]
                         ELSE accepted
    /\ UNCHANGED <<now, log, inflight>>
    /\ UNCHANGED <<replies, workers, results, closed, ctxDone, ipCounts, lastErr,
                   received, ret>>

\* the interval of the ticker passes
TickerWait ==
    /\ now < LastClock
    /\ now' = now + 1
    /\ UNCHANGED <<store, dns, last, accepted, log, inflight>>
    /\ UNCHANGED resolverVars

\* the ticker fires
DaemonCheck ==
    \E detection \in Detections, reach \in BOOLEAN :
      \E getUp \in After(reach) :
        \E dnsUp \in After(reach /\ getUp) :
          \E putUp \in After(reach /\ getUp /\ dnsUp) :
             CheckAndUpdate(detection, reach, getUp, dnsUp, putUp)

NextDaemon == TickerWait \/ DaemonCheck

SpecDaemon == Init /\ [][NextDaemon]_vars

\* the daemon runs until it is stopped: its ticker fires again and again
SpecConvergence == Init /\ [][NextDaemon]_vars /\ WF_vars(DaemonCheck)

\* ratelimit.Check applied to a stored mapping at a time
CheckMappings ==
    {[OwnerID |-> p[1], LocationName |-> p[2], IP |-> "x",
      Subdomain |-> GenerateSubdomain(p[1], p[2]), UpdatedAt |-> t,
      LastIPChangeAt |-> t, HourlyChangeCount |-> n] :
        p \in Pairs, t \in ZeroTime .. CheckHours * Hour - 1,
        n \in 0 .. MaxChangesPerHour + 1}

InitCheck ==
    /\ now \in ZeroTime .. CheckHours * Hour - 1
    /\ \/ \E m \in CheckMappings :
             store = [p \in Pairs |-> IF p = <<m.OwnerID, m.LocationName>>
                                      THEN m ELSE NoMapping]
       \/ store = [p \in Pairs |-> NoMapping]
    /\ dns = [n \in RecordNames |-> NoRecord]
    /\ last = [op |-> "Init"]
    /\ accepted = [p \in Pairs |-> [hour |-> ZeroTime, n |-> 0]]
    /\ log = <<>>
    /\ inflight = [i \in Invocations |-> Idle]
    /\ ResolverIdle

ApplyCheck(p) ==
    /\ last.op = "Init"
    /\ last' = [op |-> "Check", mapping |-> store[p], at |-> now,
                result |-> Check(store[p], now)]
    /\ UNCHANGED <<now, store, dns, accepted, log, inflight>>
    /\ UNCHANGED resolverVars

\* ratelimit.UpdateCounters applied to a stored mapping through its pointer
ApplyUpdateCounters(p) ==
    /\ last.op = "Init"
    /\ store[p] # NoMapping
    /\ store' = [store EXCEPT ![p] = UpdateCounters(store[p], now)]
    /\ last' = [op |-> "UpdateCounters", key |-> p, mapping |-> store[p],
                at |-> now]
    /\ UNCHANGED <<now, dns, accepted, log, inflight>>
    /\ UNCHANGED resolverVars

NextCheck == \E p \in Pairs : ApplyCheck(p) \/ ApplyUpdateCounters(p)

SpecCheck == InitCheck /\ [][NextCheck]_vars

\* one resolution by queryWithConsensus
InitResolver == ServerInit /\ ResolverInit

SpecResolver == InitResolver /\ [][NextResolver]_vars

\* one resolution whose authorities answer x, y or a status 500
TerminationAssignments ==
    {f \in Assignments : \A a \in Authorities : f[a] \in {1, 3, 6}}

InitTermination ==
    /\ ServerInit
    /\ \E f \in TerminationAssignments :
          ResolverStart([a \in Authorities |-> Replies[f[a]]])

\* every goroutine that can take a step takes one in the end: a request ends
\* (the HTTP client has a timeout of its own), a select with a ready case is
\* taken, wg.Wait() returns, the range loop goes on.  Nothing makes the
\* caller's context end.
Fairness ==
    /\ \A a \in Authorities :
          WF_vars(WorkerRequest(a) \/ WorkerSend(a) \/ WorkerDrop(a))
    /\ WF_vars(Close)
    /\ WF_vars(Receive)
    /\ WF_vars(Finish)

SpecTermination == InitTermination /\ [][NextResolver]_vars /\ Fairness

\* one resolution in which two authorities answer x and the other two answer
\* x or y, or fail: the client's own timeout, a status 500, an unreadable body
FailingReplies ==
    <<Reply(Nil, StatusOK, "x", Nil),
      Reply(Nil, StatusOK, "\ty ", Nil),
      Reply(ErrDo, 0, "", Nil),
      Reply(Nil, StatusInternalServerError, "x", Nil),
      Reply(Nil, StatusOK, "", ErrReadBody)>>

InitFailing ==
    /\ ServerInit
    /\ \E i, j \in DOMAIN FailingReplies :
          /\ i <= j
          /\ ResolverStart([a \in Authorities |->
                              CASE a = 1 -> Replies[1]
                                [] a = 2 -> Replies[2]
                                [] a = 3 -> FailingReplies[i]
                                [] OTHER -> FailingReplies[j]])

SpecFailing == InitFailing /\ [][NextResolver]_vars /\ Fairness

\* Cancel that leaves the context as it is
CancelSkipped ==
    /\ ret.done
    /\ ~ctxDone
    /\ UNCHANGED vars

\* IP: defer cancel(), run when queryWithConsensus has returned
Cancel ==
    /\ ret.done
    /\ ~ctxDone
    /\ ctxDone' = TRUE
    /\ UNCHANGED lastIP
    /\ UNCHANGED <<replies, workers, results, closed, ipCounts, lastErr, received,
                   ret>>
    /\ UNCHANGED serverVars

\* one resolution by IP: queryWithConsensus under a context that IP cancels on
\* its way out
NextIP == NextResolver \/ Cancel

SpecIP == InitTermination /\ [][NextIP]_vars /\ Fairness /\ WF_vars(Cancel)

----------------------------------------------------------------------------
(* Properties of the Update orchestrator *)

IsUpdate == last.op = "Update"

\* the mapping the store held for the request's pair when the handler started
Before == last.store[last.key]

\* the handler got as far as reading the mapping, and read it
Loaded == last.calls # <<>> /\ last.calls[1].call = "Get" /\ last.calls[1].ok

UpsertCalls == {i \in DOMAIN last.calls : last.calls[i].call = "UpsertRecord"}
PutCalls == {i \in DOMAIN last.calls : last.calls[i].call = "Put"}

\* the Update just handled carried the IP the mapping already had
Polled ==
    /\ IsUpdate
    /\ last.ip # ""
    /\ Before # NoMapping
    /\ last.ip = Before.IP

\* C1: an Update whose candidate IP equals the stored mapping's IP makes no DNS
\* upsert and no store put and leaves the mapping (updatedAt, lastIPChangeAt,
\* hourlyChangeCount) as it was; having loaded the mapping it answers
\* changed=false with the mapping's ip and updatedAt.
C1_NoOpIdempotence ==
    Polled =>
        /\ UpsertCalls = {} /\ PutCalls = {}
        /\ store = last.store /\ dns = last.dns
        /\ Loaded =>
            /\ ~last.resp.Err
            /\ last.resp.Body.Changed = FALSE
            /\ last.resp.Body.IP = Before.IP
            /\ last.resp.Body.UpdatedAt = FormatRFC3339(Before.UpdatedAt)

\* a poll answered changed=false while the hour's budget was used up
C1_Witness ==
    /\ Polled /\ Loaded
    /\ ~last.resp.Err /\ ~last.resp.Body.Changed
    /\ Before.HourlyChangeCount = MaxChangesPerHour
    /\ TruncateHour(Before.LastIPChangeAt) = TruncateHour(now)

\* C2: requests handled one after another under a clock that never goes back:
\* at most MaxChangesPerHour Updates answer changed=true for a pair in one
\* wall-clock hour, the first write of the pair included.
C2_HourlyBound ==
    \A p \in Pairs : accepted[p].n <= MaxChangesPerHour

\* a change refused in an hour in which MaxChangesPerHour were accepted
C2_Witness ==
    /\ IsUpdate
    /\ last.resp.Status = StatusTooManyRequests
    /\ accepted[last.key].n = MaxChangesPerHour
    /\ accepted[last.key].hour = TruncateHour(now)

\* C3: an ordinary Update of a mapping with a stored subdomain leaves the stored
\* subdomain as it was and upserts no other label.
C3_SubdomainStability ==
    (IsUpdate /\ last.ip # "" /\ Before # NoMapping /\ Before.Subdomain # "") =>
        /\ store[last.key].Subdomain = Before.Subdomain
        /\ \A i \in UpsertCalls : last.calls[i].subdomain = Before.Subdomain

\* an accepted change of a mapping whose label an administrator had assigned
C3_Witness ==
    /\ IsUpdate /\ last.ip # "" /\ Before # NoMapping
    /\ Before.Subdomain \in NewSubdomains
    /\ ~last.resp.Err /\ last.resp.Body.Changed
    /\ store[last.key].IP # Before.IP
    /\ store[last.key].UpdatedAt # Before.UpdatedAt

\* C4: when the DNS upsert of an Update fails, the Update answers an error, makes
\* no store put and leaves the store as it was.
C4_DNSFailureAborts ==
    (IsUpdate /\ \E i \in UpsertCalls : ~last.calls[i].ok) =>
        /\ last.resp.Err
        /\ PutCalls = {}
        /\ store = last.store

\* a failed upsert for a mapping that exists with another IP
C4_Witness ==
    /\ IsUpdate /\ \E i \in UpsertCalls : ~last.calls[i].ok
    /\ Before # NoMapping
    /\ last.resp.Status = StatusInternalServerError

\* an Update that ended before any write: validation, authentication, rate limit
PreWriteFailure ==
    /\ IsUpdate
    /\ last.resp.Err
    /\ \/ last.resp.Status \in {StatusBadRequest, StatusUnauthorized,
                                StatusTooManyRequests}
       \/ last.resp.Description = "authentication failed"

\* C5: an Update that ends in a validation error, an authentication error or
\* RateLimited makes no DNS upsert and no store put; the record set and the store
\* are as they were.
C5_PreWriteFailuresClean ==
    PreWriteFailure =>
        /\ UpsertCalls = {} /\ PutCalls = {}
        /\ store = last.store /\ dns = last.dns

\* a rate-limited Update of a mapping whose DNS record exists
C5_Witness ==
    /\ PreWriteFailure
    /\ last.resp.Status = StatusTooManyRequests
    /\ last.resp.RetryAfter > 0
    /\ last.ip # Before.IP

----------------------------------------------------------------------------
(* Properties of the subdomain migration *)

IsMigration == last.op = "ChangeSubdomain"

BatchCalls == {i \in DOMAIN last.calls : last.calls[i].call = "ChangeResourceRecordSets"}

\* the migration just run changed DNS and then failed to update the store
StoreFailedAfterDNS ==
    /\ IsMigration
    /\ \E i \in DOMAIN last.calls :
         /\ last.calls[i].call = "UpdateItem" /\ ~last.calls[i].ok
         /\ i > 1 /\ last.calls[i - 1].call = "ChangeResourceRecordSets"
         /\ last.calls[i - 1].ok

\* C8: when the store update of a migration fails after its DNS batch (delete
\* old, create new) succeeded, exactly one more DNS batch is submitted, after the
\* store update, with the reverse content (delete new, create old, same IP), and
\* the error returned is the store's.
C8_MigrationCompensation ==
    StoreFailedAfterDNS =>
        \E a, r \in BatchCalls :
            /\ BatchCalls = {a, r} /\ a < r
            /\ last.calls[r - 1].call = "UpdateItem"
            /\ r = Len(last.calls)
            /\ last.calls[r].delete = last.calls[a].create
            /\ last.calls[r].create = last.calls[a].delete
            /\ last.calls[r].ip = last.calls[a].ip
            /\ last.resp.Err
            /\ last.resp.Cause = ErrUpdateItem

\* a migration from the derived label whose store update failed and whose
\* compensating batch put the old record back
C8_Witness ==
    /\ StoreFailedAfterDNS
    /\ last.calls[Len(last.calls)].ok
    /\ last.calls[Len(last.calls)].delete # last.calls[Len(last.calls)].create
    /\ dns = last.dns
    /\ store = last.store

----------------------------------------------------------------------------
(* Properties of the consensus resolver *)

\* the places among the first n results received that succeeded with address ip
Agreeing(n, ip) ==
    {i \in 1 .. n : received[i].err = Nil /\ received[i].ip = ip}

\* some address has reached the quorum count within the first n results received
QuorumWithin(n) ==
    \E i \in 1 .. n :
        /\ received[i].err = Nil
        /\ Cardinality(Agreeing(n, received[i].ip)) >= consensusRequired

\* authority a answered 200 with a readable body that trims to ip
Delivered(a, ip) ==
    /\ replies[a].Do = Nil
    /\ replies[a].StatusCode = StatusOK
    /\ replies[a].ReadAll = Nil
    /\ TrimSpace(replies[a].Body) = ip

\* two authorities answer A, the other two answer B
TwoAndTwo(A, B) ==
    /\ A # B
    /\ Cardinality({a \in Authorities : Delivered(a, A)}) = 2
    /\ Cardinality({a \in Authorities : Delivered(a, B)}) = 2

ReturnedValue == ret.done /\ ret.err = Nil

\* C6: a value returned without error was delivered, exactly as its trimmed
\* text, by at least consensusRequired distinct authorities in successful
\* responses; it is the first value whose count reached the quorum in arrival
\* order; and when two authorities report A and two report B it is A or B.
C6_QuorumCorrectness ==
    ReturnedValue =>
        LET n == Len(received)
            from == {received[i].from : i \in Agreeing(n, ret.ip)}
        IN  /\ Cardinality(from) >= consensusRequired
            /\ \A a \in from : Delivered(a, ret.ip)
            /\ n \in Agreeing(n, ret.ip)
            /\ ~QuorumWithin(n - 1)
            /\ \A a, b \in Authorities :
                  LET A == TrimSpace(replies[a].Body)
                      B == TrimSpace(replies[b].Body)
                  IN  TwoAndTwo(A, B) => ret.ip \in {A, B}

\* two authorities answered "x" with different white space, two answered "y",
\* and "x" was returned
C6_Witness ==
    /\ ReturnedValue
    /\ ret.ip = "x"
    /\ TwoAndTwo("x", "y")
    /\ \E i, j \in 1 .. Len(received) :
          /\ replies[received[i].from].Body = "x"
          /\ replies[received[j].from].Body = " x\n"

\* the last error among the results, Nil when there is none
RECURSIVE LastError(_)
LastError(msgs) ==
    IF msgs = <<>> THEN Nil
    ELSE IF msgs[Len(msgs)].err # Nil THEN msgs[Len(msgs)].err
    ELSE LastError(SubSeq(msgs, 1, Len(msgs) - 1))

\* the resolver returned and no value had reached the quorum count
ReturnedNoQuorum == ret.done /\ ~QuorumWithin(Len(received))

EveryAuthorityReported == Len(received) = NumAuthorities

----------------------------------------------------------------------------
(* Properties of a client's sequence of Updates *)

\* the client's log holds four Updates of one pair with addresses x, x, y, z
Polls(x, y, z) ==
    /\ Len(log) = 4
    /\ \A i \in 1 .. 4 : log[i].key = log[1].key
    /\ log[1].ip = x /\ log[2].ip = x /\ log[3].ip = y /\ log[4].ip = z

\* the log's Updates fall in one wall-clock hour
WithinOneHour ==
    \A i \in 1 .. Len(log) : log[i].at \div Hour = log[1].at \div Hour

\* the answer of an Update that succeeded: 200 with this body
Answered(resp, key, ip, changed, at) ==
    resp = Success(MappingBody(key[1], key[2], ip,
                               FormatFQDN(GenerateSubdomain(key[1], key[2])),
                               changed, FormatRFC3339(at)))

\* C9: from no mapping, with every backend up and within one wall-clock hour,
\* Updates with addresses x, x, y, z (pairwise distinct) are answered Updated
\* (changed, x, the derived name), Unchanged (not changed, x, the same name),
\* Updated (changed, y) and RateLimited, the last without any change to the
\* DNS records or the store.
C9_Scenario ==
    \A x, y, z \in IPs :
        (x # y /\ y # z /\ x # z /\ Polls(x, y, z) /\ WithinOneHour) =>
            /\ Answered(log[1].resp, log[1].key, x, TRUE, log[1].at)
            /\ Answered(log[2].resp, log[1].key, x, FALSE, log[1].at)
            /\ Answered(log[3].resp, log[1].key, y, TRUE, log[3].at)
            /\ log[4].resp.Err
            /\ log[4].resp.Status = StatusTooManyRequests
            /\ log[4].store = log[3].store
            /\ log[4].dns = log[3].dns
            /\ log[4].store[log[1].key].IP = y

\* the four Updates have been made within one hour
C9_Witness ==
    /\ Polls("x", "y", "z")
    /\ WithinOneHour
    /\ log[4].resp.Status = StatusTooManyRequests
    /\ log[4].at > log[1].at

----------------------------------------------------------------------------
(* Properties of the rate limiter *)

Checked == last.op = "Check"

\* the number of the wall-clock hour a time falls in
HourOf(t) == t \div Hour

\* the mapping given to Check has used up the hour's changes
AtLimit ==
    /\ last.mapping # NoMapping
    /\ last.mapping.HourlyChangeCount >= MaxChangesPerHour

\* C10: for a mapping at the limit whose last change is in the wall-clock hour
\* of now, Check denies with retryAfter equal to the start of the next
\* wall-clock hour minus now, more than zero and at most one hour; for a now in
\* a later wall-clock hour Check allows, however little time has passed.
C10_RateLimitBoundary ==
    (Checked /\ AtLimit) =>
        /\ HourOf(last.mapping.LastIPChangeAt) = HourOf(last.at) =>
              /\ ~last.result.Allowed
              /\ last.result.RetryAfter = (HourOf(last.at) + 1) * Hour - last.at
              /\ 0 < last.result.RetryAfter
              /\ last.result.RetryAfter <= Hour
        /\ HourOf(last.at) > HourOf(last.mapping.LastIPChangeAt) =>
              last.result.Allowed

\* a mapping changed in the last second of an hour, checked one second later
C10_Witness ==
    /\ Checked
    /\ AtLimit
    /\ last.mapping.LastIPChangeAt % Hour = Hour - Second
    /\ last.at = last.mapping.LastIPChangeAt + Second
    /\ last.result.Allowed

\* C11: Check allows exactly when the mapping is absent, or its last change
\* falls in another wall-clock hour than now, or its count is below
\* MaxChangesPerHour; an allowed result has a retry delay of zero; and the
\* mapping is left as it was.
C11_CheckDecisionTable ==
    Checked =>
        /\ last.result.Allowed <=>
              \/ last.mapping = NoMapping
              \/ HourOf(last.mapping.LastIPChangeAt) # HourOf(last.at)
              \/ last.mapping.HourlyChangeCount < MaxChangesPerHour
        /\ last.result.Allowed => last.result.RetryAfter = 0
        /\ \E p \in Pairs : store[p] = last.mapping

\* a mapping over the limit in an earlier hour is allowed to change
C11_Witness ==
    /\ Checked
    /\ last.mapping # NoMapping
    /\ last.mapping.HourlyChangeCount > MaxChangesPerHour
    /\ HourOf(last.mapping.LastIPChangeAt) < HourOf(last.at)
    /\ last.at - last.mapping.LastIPChangeAt < Hour
    /\ last.result = [Allowed |-> TRUE, RetryAfter |-> 0]

Counted == last.op = "UpdateCounters"

\* C12: UpdateCounters adds one to the count when the last change is in the
\* wall-clock hour of now and sets it to one otherwise, sets the time of the
\* last change to now, and changes no other field.
C12_UpdateCounters ==
    Counted =>
        LET old == last.mapping
            new == store[last.key]
        IN  /\ new.HourlyChangeCount =
                  IF HourOf(old.LastIPChangeAt) = HourOf(last.at)
                  THEN old.HourlyChangeCount + 1 ELSE 1
            /\ new.LastIPChangeAt = last.at
            /\ DOMAIN new = DOMAIN old
            /\ \A f \in DOMAIN old \ {"HourlyChangeCount", "LastIPChangeAt"} :
                  new[f] = old[f]

\* a change less than an hour after the last one, in the next wall-clock hour
C12_Witness ==
    /\ Counted
    /\ HourOf(last.mapping.LastIPChangeAt) + 1 = HourOf(last.at)
    /\ last.at - last.mapping.LastIPChangeAt < Hour
    /\ last.mapping.HourlyChangeCount = MaxChangesPerHour
    /\ store[last.key].HourlyChangeCount = 1
    /\ store[last.key].UpdatedAt # last.at

----------------------------------------------------------------------------
(* Properties of the candidate address *)

\* the logged request passed parsing, validation and authentication
Admitted(e) ==
    /\ e.request.Body = "ok"
    /\ e.request.OwnerID # "" /\ e.request.Location # ""
    /\ e.request.Auth = "ok"

\* the text parses as an IP literal: one of the abbreviated addresses
ParsesAsIP(text) == text \in IPs

LoggedUpserts(e) == {i \in DOMAIN e.calls : e.calls[i].call = "UpsertRecord"}
LoggedPuts(e) == {i \in DOMAIN e.calls : e.calls[i].call = "Put"}

\* the address ip is the one the logged Update compared, upserted, stored and
\* answered with
UsedAs(e, ip) ==
    /\ e.ip = ip
    /\ \A i \in LoggedUpserts(e) : e.calls[i].ip = ip
    /\ \A i \in LoggedPuts(e) : e.calls[i].mapping.IP = ip
    /\ ~e.resp.Err => e.resp.Body.IP = ip
    /\ (~e.resp.Err /\ ~e.resp.Body.Changed) =>
          (e.before[<<e.request.OwnerID, e.request.Location>>].IP = ip)

\* C13 as stated: an ip value in the request body is the address the Update
\* uses, not the transport-derived one; a value that is no IP literal is
\* answered 400 'invalid IP address format' without any DNS or store write.
C13_ClientSuppliedIPWins ==
    \A n \in DOMAIN log :
        LET e == log[n]
        IN  (Admitted(e) /\ e.request.IP # "") =>
                IF ParsesAsIP(e.request.IP)
                THEN UsedAs(e, e.request.IP)
                ELSE /\ e.resp.Err
                     /\ e.resp.Status = StatusBadRequest
                     /\ e.resp.Description = "invalid IP address format"
                     /\ LoggedUpserts(e) = {} /\ LoggedPuts(e) = {}
                     /\ e.store = e.before

\* the forwarded-address header of a request: either spelling
ForwardedFor(request) ==
    IF request.XForwardedFor # "" THEN request.XForwardedFor
    ELSE request.xForwardedFor

Blank(text) == \A i \in 1 .. Len(text) : IsSpace(SubSeq(text, i, i))

\* entry is the text of header up to its first comma
FirstEntryOf(entry, header) ==
    /\ \A i \in 1 .. Len(entry) : SubSeq(entry, i, i) # ","
    /\ \/ header = entry
       \/ /\ Len(header) > Len(entry)
          /\ SubSeq(header, 1, Len(entry) + 1) = entry \o ","

\* trimmed is text without the white space around it
TrimmedOf(trimmed, text) ==
    /\ trimmed = "" \/ /\ ~IsSpace(SubSeq(trimmed, 1, 1))
                       /\ ~IsSpace(SubSeq(trimmed, Len(trimmed), Len(trimmed)))
    /\ \E i \in 0 .. Len(text) :
          /\ Blank(SubSeq(text, 1, i))
          /\ i + Len(trimmed) <= Len(text)
          /\ SubSeq(text, i + 1, i + Len(trimmed)) = trimmed
          /\ Blank(SubSeq(text, i + Len(trimmed) + 1, Len(text)))

\* C14: without a client-supplied ip, the address an Update uses is the first
\* comma-separated entry of the forwarded-address header, trimmed of white
\* space, when the header is present, and the source address otherwise; with
\* neither, the Update fails with the missing-IP error before reading the
\* mapping.
C14_TransportDerivedIP ==
    \A n \in DOMAIN log :
        LET e == log[n]
            header == ForwardedFor(e.request)
        IN  (Admitted(e) /\ e.request.IP = "") =>
                /\ header # "" =>
                      \E k \in 0 .. Len(header) :
                          /\ FirstEntryOf(SubSeq(header, 1, k), header)
                          /\ TrimmedOf(e.ip, SubSeq(header, 1, k))
                /\ header = "" => e.ip = e.request.SourceIP
                /\ UsedAs(e, e.ip)
                /\ (header = "" /\ e.request.SourceIP = "") =>
                      /\ e.resp.Err
                      /\ e.resp.Status = StatusBadRequest
                      /\ e.resp.Description = "could not determine client IP"
                      /\ e.calls = <<>>
                      /\ e.store = e.before

\* a header of two entries with white space and a source address: the first
\* entry is stored
C14_Witness ==
    \E n \in DOMAIN log :
        /\ Admitted(log[n])
        /\ log[n].request.IP = ""
        /\ log[n].request.xForwardedFor = " y "
        /\ log[n].request.SourceIP = "z"
        /\ ~log[n].resp.Err
        /\ log[n].store[<<log[n].request.OwnerID, log[n].request.Location>>].IP = "y"

----------------------------------------------------------------------------
(* Properties of the retry delay *)

\* the Update just handled ended RateLimited
RateLimited ==
    /\ IsUpdate
    /\ last.resp.Err
    /\ last.resp.Status = StatusTooManyRequests

\* C15: every Update that ends RateLimited carries a retry delay in whole
\* seconds greater than 0, at every time within the hour, the last second before
\* the hour boundary included, so that a Retry-After header is always emitted.
C15_RetryDelaySurfaced ==
    RateLimited => last.resp.RetryAfter > 0

----------------------------------------------------------------------------
(* Properties of the inconsistency window *)

LoggedKey(e) == <<e.request.OwnerID, e.request.Location>>

\* the A record of the mapping stored for the pair of e after e
LoggedRecord(e) == e.dns[FormatFQDN(e.store[LoggedKey(e)].Subdomain)]

\* e left DNS at the new IP and the store at the old one: the upsert succeeded
\* and the put failed, on an existing mapping
OpensWindow(e) ==
    /\ e.before[LoggedKey(e)] # NoMapping
    /\ e.resp.Err
    /\ \E i \in LoggedUpserts(e) : e.calls[i].ok
    /\ \E i \in LoggedPuts(e) : ~e.calls[i].ok
    /\ e.store = e.before
    /\ LoggedRecord(e) # NoRecord
    /\ LoggedRecord(e).Value = e.ip
    /\ e.store[LoggedKey(e)].IP # e.ip

\* after e the A record, the stored mapping and the response carry one IP
Reconciled(e) ==
    /\ e.store[LoggedKey(e)] # NoMapping
    /\ LoggedRecord(e) # NoRecord
    /\ LoggedRecord(e).Value = e.store[LoggedKey(e)].IP
    /\ e.resp.Body.IP = e.store[LoggedKey(e)].IP

\* the Update logged at n + 1 follows, for the same pair, one that opened the window
NextAfterWindow(n) ==
    /\ n + 1 \in DOMAIN log
    /\ OpensWindow(log[n])
    /\ LoggedKey(log[n + 1]) = LoggedKey(log[n])

\* C16 as stated: after an Update that left DNS at the new IP and the store at
\* the old IP, the next Update of the pair that returns success, Unchanged or
\* Updated, whatever its candidate IP, leaves the A record IP equal to the stored
\* IP and to the ip of its response.
C16_AnySuccessReconciles ==
    \A n \in DOMAIN log :
        (NextAfterWindow(n) /\ ~log[n + 1].resp.Err) => Reconciled(log[n + 1])

\* C16: after an Update that left DNS at the new IP and the store at the old IP,
\* the next Update of the pair that returns Updated leaves the A record IP equal
\* to the stored IP and to the ip of its response; one that returns Unchanged
\* (its candidate is the stored IP) writes nothing and leaves the A record at the
\* new IP, different from the stored one.
C16_UpdatedReconciles ==
    \A n \in DOMAIN log :
        (NextAfterWindow(n) /\ ~log[n + 1].resp.Err) =>
            IF log[n + 1].resp.Body.Changed
            THEN Reconciled(log[n + 1])
            ELSE /\ log[n + 1].ip = log[n].store[LoggedKey(log[n])].IP
                 /\ LoggedUpserts(log[n + 1]) = {}
                 /\ LoggedPuts(log[n + 1]) = {}
                 /\ log[n + 1].store = log[n].store
                 /\ log[n + 1].dns = log[n].dns
                 /\ LoggedRecord(log[n + 1]).Value = log[n].ip
                 /\ ~Reconciled(log[n + 1])

\* the window opened by a change from x to y is closed by an Updated to z
C16_Witness ==
    \E n \in DOMAIN log :
        /\ NextAfterWindow(n)
        /\ log[n].store[LoggedKey(log[n])].IP = "x"
        /\ log[n].ip = "y"
        /\ ~log[n + 1].resp.Err
        /\ log[n + 1].resp.Body.Changed
        /\ log[n + 1].ip = "z"
        /\ Reconciled(log[n + 1])

----------------------------------------------------------------------------
(* Properties of the migration as a whole *)

\* the label the mapping of the migration just run had before it
OldLabel == subdomainOf(Before, last.key[1], last.key[2])

\* the migration just run started with the A record of the mapping under its
\* label, carrying its IP, and no record under the new label
RunAlone ==
    /\ IsMigration
    /\ Before # NoMapping
    /\ Before.IP # ""
    /\ last.new # OldLabel
    /\ last.dns[FormatFQDN(OldLabel)] = ARecord(Before.IP)
    /\ last.dns[FormatFQDN(last.new)] = NoRecord

\* the record set and the stored subdomain both reflect label
Reflects(label, other) ==
    /\ dns[FormatFQDN(label)] = ARecord(Before.IP)
    /\ dns[FormatFQDN(other)] = NoRecord
    /\ subdomainOf(store[last.key], last.key[1], last.key[2]) = label

\* C17: after ChangeSubdomain returns, for every combination of DNS and store
\* failures, either it returned success and the record set (A record under the
\* new label, none under the old) and the stored subdomain reflect the new label,
\* or it returned an error and both reflect the old label.
C17_MigrationAllOrNothing ==
    RunAlone =>
        IF last.resp.Err
        THEN Reflects(OldLabel, last.new)
        ELSE Reflects(last.new, OldLabel)

\* C18: ChangeSubdomain fails with an error, and submits no DNS change batch
\* and no store update, when the mapping of the pair is absent or has an empty IP.
C18_MigrationPrecondition ==
    (IsMigration /\ (Before = NoMapping \/ Before.IP = "")) =>
        /\ last.resp.Err
        /\ BatchCalls = {}
        /\ \A i \in DOMAIN last.calls : last.calls[i].call # "UpdateItem"
        /\ store = last.store
        /\ dns = last.dns

\* a migration of a mapping stored without an IP, the table answering
C18_Witness ==
    /\ IsMigration
    /\ Before # NoMapping
    /\ Before.IP = ""
    /\ last.calls = <<[call |-> "GetItem", ok |-> TRUE]>>
    /\ last.resp.Err
    /\ last.resp.Cause = "mapping has no IP address"

----------------------------------------------------------------------------
(* Properties of the DNS upserts *)

\* an upsert was applied, and the provider was reachable each time
Upserted ==
    /\ last.op \in {"UpsertRecord", "UpsertTXTRecord"}
    /\ \A i \in DOMAIN last.up : last.up[i]

\* the record set the upsert applied asks for
Upserting ==
    IF last.op = "UpsertRecord"
    THEN [Type |-> "A", Value |-> last.value, TTL |-> 300]
    ELSE [Type |-> "TXT", Value |-> "\"" \o last.value \o "\"", TTL |-> 300]

\* C19: for every record state and every (subdomain, ip), upsertA applied twice
\* in a row yields the same record state as applied once, an A record
\* {subdomain}.{rootDomain} with value ip and TTL 300 and every other record as it
\* was; likewise for upsertTXT(name, value).
C19_UpsertIdempotent ==
    Upserted =>
        /\ \A i \in DOMAIN last.ok : last.ok[i]
        /\ dns[last.name \o "." \o RootDomain] = Upserting
        /\ \A n \in DOMAIN dns :
              n # last.name \o "." \o RootDomain => dns[n] = last.dns[n]
        /\ last.n = 2 => dns = last.once

\* an A record replaced by the first upsert and left alone by the second
C19_Witness ==
    /\ Upserted
    /\ last.op = "UpsertRecord"
    /\ last.n = 2
    /\ last.dns[FormatFQDN(last.name)] \in {ARecord(ip) : ip \in IPs \ {last.value}}
    /\ dns = last.once
    /\ dns[FormatFQDN(last.name)] = ARecord(last.value)

----------------------------------------------------------------------------
(* Properties of the subdomain derivation *)

HexDigits == {"0", "1", "2", "3", "4", "5", "6", "7", "8", "9",
              "a", "b", "c", "d", "e", "f"}

IsLowerHex(text) == \A i \in 1 .. Len(text) : SubSeq(text, i, i) \in HexDigits

\* the pairs differ in the location only, or in the owner only
DifferInOne(p, q) ==
    \/ p[1] = q[1] /\ p[2] # q[2]
    \/ p[1] # q[1] /\ p[2] = q[2]

\* the pairs the derivation is told apart on
Named == {<<"acme", "home">>, <<"acme", "office">>, <<"other", "home">>}

----------------------------------------------------------------------------
(* Properties of the resolver's goroutines *)

\* every worker goroutine and the channel-closing goroutine have exited
AllExited ==
    /\ \A a \in Authorities : workers[a].pc = "done"
    /\ closed

\* a worker at its select can send: the channel has a free slot
CanSend == \A a \in Authorities : workers[a].pc = "select" => Len(results) < NumAuthorities

\* C21: every call of queryWithConsensus returns; no worker ever blocks on
\* sending its result; and after the resolver has returned, on quorum or on
\* failure, every worker goroutine and the channel-closing goroutine exit.
C21_TerminationWithoutLeaks ==
    /\ <>ret.done
    /\ []CanSend
    /\ ret.done ~> AllExited

\* the resolver returned on quorum with results left in the channel, and every
\* goroutine has exited without the context being done
C21_Witness ==
    /\ ret.done /\ ret.err = Nil
    /\ results # <<>>
    /\ ~ctxDone
    /\ AllExited

----------------------------------------------------------------------------
(* Properties of the early return *)

\* the tally of some value has reached the quorum count
QuorumReached == \E ip \in DOMAIN ipCounts : ipCounts[ip] >= consensusRequired

\* the authorities whose query is still outstanding
Outstanding == {a \in Authorities : workers[a].pc = "request"}

\* a query that ends once the context is done ends with the context's error
CancelledQueries ==
    \A a \in Outstanding :
        (ctxDone /\ workers'[a].pc = "select") =>
            workers'[a].res = Result("", ErrDo)

\* C22: as soon as the tally of a value reaches the quorum count the resolver
\* has returned that value, whatever the number of authorities still
\* outstanding, and the queries outstanding at that moment are cancelled: the
\* context is done soon after and they end with its error.
C22_EarlyReturnCancels ==
    /\ [](QuorumReached =>
            /\ ret.done /\ ret.err = Nil
            /\ ipCounts[ret.ip] = consensusRequired
            /\ received[Len(received)].ip = ret.ip)
    /\ (ret.done ~> ctxDone)
    /\ [][CancelledQueries]_vars

\* the resolver returned x after two results; a third authority, which would
\* have answered, had its query cancelled
C22_Witness ==
    /\ ret.done /\ ret.err = Nil /\ ret.ip = "x"
    /\ Len(received) = consensusRequired
    /\ ctxDone
    /\ \E a \in Authorities :
          /\ replies[a].Do = Nil
          /\ workers[a].pc = "select"
          /\ workers[a].res = Result("", ErrDo)

----------------------------------------------------------------------------
(* Properties of the resolver under authority errors *)

\* the results put on the channel so far, in the order they were sent
Sent == received \o results

\* the authorities that reported ip successfully, before the deadline made them
\* fail or drop their result
Reported(ip) == {Sent[i].from : i \in {k \in DOMAIN Sent : Sent[k].err = Nil /\ Sent[k].ip = ip}}

ReportedValues == {Sent[i].ip : i \in {k \in DOMAIN Sent : Sent[k].err = Nil}}

\* v was reported by a quorum and no other value by as many authorities
SoleQuorum(v) ==
    /\ Cardinality(Reported(v)) >= consensusRequired
    /\ \A w \in ReportedValues \ {v} :
          Cardinality(Reported(w)) < Cardinality(Reported(v))

\* C23: if at least consensusRequired authorities respond successfully with the
\* same value v before the deadline and no other value is reported by as many,
\* the resolver returns, and returns v, however many other authorities fail
\* (timeout, non-200 status, unreadable body) and in whatever order successes and
\* errors arrive.
C23_ErrorsDoNotAbort ==
    /\ <>ret.done
    /\ [](\A v \in ReportedValues :
             (ret.done /\ SoleQuorum(v)) => ret = Returned(v, Nil))

\* x is returned after a timeout, an x, an unreadable body and an x, in this order
C23_Witness ==
    /\ ret = Returned("x", Nil)
    /\ ~ctxDone
    /\ Len(received) = NumAuthorities
    /\ received[1].err = ErrDo
    /\ received[2].err = Nil
    /\ received[3].err = ErrReadBody
    /\ SoleQuorum("x")

----------------------------------------------------------------------------
(* Properties of Updates running side by side *)

LoggedUpdated(e) == ~e.resp.Err /\ e.resp.Body.Changed

\* the changes accepted for the pair of log[j], in the hour of log[j], among the
\* first j invocations to return
AcceptedChanges(j) ==
    {k \in 1 .. j :
        /\ LoggedUpdated(log[k])
        /\ LoggedKey(log[k]) = LoggedKey(log[j])
        /\ TruncateHour(log[k].at) = TruncateHour(log[j].at)}

\* the invocations logged at i and j ran side by side on the same mapping: both
\* read it, with different changed IPs in the same hour, and both succeeded
Raced(i, j) ==
    /\ i < j
    /\ LoggedKey(log[i]) = LoggedKey(log[j])
    /\ log[i].read = log[j].read
    /\ log[i].ip # log[j].ip
    /\ TruncateHour(log[i].at) = TruncateHour(log[j].at)
    /\ LoggedUpdated(log[i]) /\ LoggedUpdated(log[j])

\* C24: whenever two Updates of a pair with different changed IPs in the same
\* hour read the same mapping, pass the rate limiter and succeed, the
\* hourlyChangeCount stored after both is smaller than the number of changes
\* accepted in that hour: an increment is lost.  (That such a run exists, and one
\* with more than MaxChangesPerHour accepted changes, is the witness.)
C24_LostIncrement ==
    \A i, j \in DOMAIN log :
        Raced(i, j) =>
            log[j].store[LoggedKey(log[j])].HourlyChangeCount
                < Cardinality(AcceptedChanges(j))

\* after a first change, two Updates read the mapping with count 1, both are
\* allowed and both succeed: three changes accepted in the hour, count 2 stored
C24_Witness ==
    /\ Len(log) = 3
    /\ Raced(2, 3)
    /\ log[2].read # NoMapping
    /\ Cardinality(AcceptedChanges(3)) > MaxChangesPerHour
    /\ store[LoggedKey(log[3])].HourlyChangeCount = MaxChangesPerHour
    /\ \A i \in Invocations : inflight[i] = Idle

----------------------------------------------------------------------------
(* Properties of the order of writes *)

\* C25: within one Update, a store put of a mapping with ip = v happens only
\* after a DNS upsert of (subdomain, v) by the same request has succeeded and
\* after the rate limiter allowed the change; one invocation issues at most one
\* DNS upsert and at most one store put.
C25_WriteOrdering ==
    IsUpdate =>
        /\ Cardinality(UpsertCalls) <= 1
        /\ Cardinality(PutCalls) <= 1
        /\ \A p \in PutCalls :
              /\ \E u \in UpsertCalls :
                    /\ u < p
                    /\ last.calls[u].ok
                    /\ last.calls[u].ip = last.calls[p].mapping.IP
                    /\ last.calls[u].subdomain = last.calls[p].mapping.Subdomain
              /\ Check(Before, last.at).Allowed

\* the put of an existing mapping failed after its upsert, and was not tried again
C25_Witness ==
    /\ IsUpdate
    /\ \E u \in UpsertCalls, p \in PutCalls :
          /\ u < p
          /\ last.calls[u].ok
          /\ ~last.calls[p].ok
          /\ p = Len(last.calls)
    /\ Before # NoMapping
    /\ last.resp.Err

----------------------------------------------------------------------------
(* Properties of the first write *)

\* the Update just handled was for a pair with no stored mapping
FirstWrite ==
    /\ IsUpdate
    /\ last.key \in DOMAIN last.store
    /\ Before = NoMapping

\* the DNS upsert and the store put of the Update just handled both succeeded
WritesSucceeded ==
    /\ \E u \in UpsertCalls : last.calls[u].ok
    /\ \E p \in PutCalls : last.calls[p].ok

\* C26: an Update for a pair with no stored mapping is never rate-limited and,
\* when DNS and store succeed, stores a mapping with the ownerId and location of
\* the request, ip = candidate, subdomain = GenerateSubdomain(ownerId, location),
\* hourlyChangeCount = 1 and lastIPChangeAt = updatedAt = now, and returns
\* changed=true.
C26_FirstWrite ==
    FirstWrite =>
        /\ last.resp.Status # StatusTooManyRequests
        /\ WritesSucceeded =>
              /\ store[last.key] =
                    [OwnerID |-> last.key[1], LocationName |-> last.key[2],
                     IP |-> last.ip,
                     Subdomain |-> GenerateSubdomain(last.key[1], last.key[2]),
                     UpdatedAt |-> last.at, LastIPChangeAt |-> last.at,
                     HourlyChangeCount |-> 1]
              /\ ~last.resp.Err
              /\ last.resp.Body.Changed
              /\ last.resp.Body.IP = last.ip

\* the first Update of ("acme", "home") stored y under the derived label
C26_Witness ==
    /\ FirstWrite
    /\ WritesSucceeded
    /\ last.key = <<"acme", "home">>
    /\ store[last.key].IP = "y"
    /\ store[last.key].Subdomain = "a47763d1"
    /\ store[last.key].HourlyChangeCount = 1
    /\ dns["a47763d1.grocky.net"] = ARecord("y")

----------------------------------------------------------------------------
(* Properties of the phases of a migration *)

\* the migration just run read a mapping it can migrate
MappingRead ==
    /\ IsMigration
    /\ last.calls[1].ok
    /\ Before # NoMapping
    /\ Before.IP # ""

\* C27: ChangeSubdomain submits the delete of the old A record and the create
\* of the new A record, with the IP read from the mapping, in one provider change
\* call, never two; if that call fails it returns an error without updating the
\* store and without a compensating call.
C27_PhaseAOneBatch ==
    MappingRead =>
        /\ Len(last.calls) >= 2
        /\ last.calls[2].call = "ChangeResourceRecordSets"
        /\ last.calls[2].delete = FormatFQDN(OldLabel)
        /\ last.calls[2].create = FormatFQDN(last.new)
        /\ last.calls[2].ip = Before.IP
        /\ Len(last.calls) >= 3 => last.calls[3].call = "UpdateItem"
        /\ ~last.calls[2].ok =>
              /\ last.resp.Err
              /\ Len(last.calls) = 2
              /\ store = last.store
              /\ dns = last.dns

\* the batch of a migration from the derived label failed
C27_Witness ==
    /\ MappingRead
    /\ last.calls[2].delete = "a47763d1.grocky.net"
    /\ last.calls[2].create = "home.grocky.net"
    /\ ~last.calls[2].ok
    /\ last.dns["a47763d1.grocky.net"] = ARecord(Before.IP)
    /\ last.resp.Err
    /\ last.resp.Cause = ErrRoute53

\* C28: the store update of ChangeSubdomain changes only the subdomain of the
\* mapping; ip, updatedAt, lastIPChangeAt and hourlyChangeCount are the same
\* before and after a migration, so the rate limiter decides the same after it
\* as before it.
C28_PhaseBFrame ==
    (IsMigration /\ Before # NoMapping) =>
        /\ store[last.key] # NoMapping
        /\ store[last.key].OwnerID = Before.OwnerID
        /\ store[last.key].LocationName = Before.LocationName
        /\ store[last.key].IP = Before.IP
        /\ store[last.key].UpdatedAt = Before.UpdatedAt
        /\ store[last.key].LastIPChangeAt = Before.LastIPChangeAt
        /\ store[last.key].HourlyChangeCount = Before.HourlyChangeCount
        /\ store[last.key].Subdomain \in {Before.Subdomain, last.new}
        /\ ~last.resp.Err => store[last.key].Subdomain = last.new
        /\ \A p \in DOMAIN store \ {last.key} : store[p] = last.store[p]
        /\ \A t \in FirstClock .. LastClock :
              Check(store[last.key], t) = Check(Before, t)

\* a mapping that has used up its changes of the hour is migrated, and is still
\* rate-limited afterwards
C28_Witness ==
    /\ IsMigration
    /\ ~last.resp.Err
    /\ Before # NoMapping
    /\ Before.Subdomain # last.new
    /\ store[last.key].Subdomain = last.new
    /\ store[last.key].HourlyChangeCount = MaxChangesPerHour
    /\ ~Check(store[last.key], last.at).Allowed

\* the compensating batch of the migration just run failed
CompensationFailed ==
    /\ StoreFailedAfterDNS
    /\ ~last.calls[Len(last.calls)].ok

\* what the same migration returns when its compensating batch succeeds
CompensatedOutcome ==
    ChangeSubdomain(last.store, last.dns,
                    [OwnerID |-> last.key[1], Location |-> last.key[2],
                     NewSubdomain |-> last.new],
                    TRUE, TRUE, FALSE, TRUE).out

\* C29: when the compensating reverse batch of ChangeSubdomain itself fails, no
\* further DNS or store call is made, and the error returned reports the
\* compensation failure: it differs from the error returned when the
\* compensation succeeded.
C29_CompensationFailureSurfaced ==
    CompensationFailed =>
        /\ last.calls[Len(last.calls)].call = "ChangeResourceRecordSets"
        /\ Cardinality(BatchCalls) = 2
        /\ last.resp.Err
        /\ last.resp # CompensatedOutcome

----------------------------------------------------------------------------
(* Properties of the DNS service's provider calls *)

\* an operation of the DNS service was applied
ProviderCalled == last.op \in {"UpsertRecord", "UpsertTXTRecord", "DeleteTXTRecord"}

\* the zone before and after the i-th application
ZoneBefore(i) == IF i = 1 THEN last.dns ELSE last.once

ZoneAfter(i) == IF i = last.n THEN dns ELSE last.once

\* the action the operation applied asks of the provider
ProviderAction == IF last.op = "DeleteTXTRecord" THEN "DELETE" ELSE "UPSERT"

\* C30: the DNS service does not retry: each call of upsertA, upsertTXT or
\* deleteTXT makes exactly one provider change call, a batch of one change; when
\* that call fails the operation returns an error, makes no further provider
\* call and leaves the zone as it was.
C30_NoRetry ==
    ProviderCalled =>
        \A i \in 1..last.n :
            /\ Len(last.submitted[i]) = 1
            /\ Len(last.submitted[i][1]) = 1
            /\ last.submitted[i][1][1].Action = ProviderAction
            /\ last.submitted[i][1][1].Name = last.name \o "." \o RootDomain
            /\ ~last.up[i] => ~last.ok[i]
            /\ ~last.ok[i] => ZoneAfter(i) = ZoneBefore(i)

\* the provider unreachable while a TXT record that is there is deleted: one
\* call, an error, the record still there
C30_Witness ==
    /\ last.op = "DeleteTXTRecord"
    /\ last.n = 1
    /\ ~last.up[1] /\ ~last.ok[1]
    /\ Len(last.submitted[1]) = 1
    /\ dns[last.name \o "." \o RootDomain] = TXTRecord(last.value)

----------------------------------------------------------------------------
(* Properties of Updates and migrations together *)

\* ChangeSubdomain has just succeeded for pair p with new label L
Migrated(p, L) ==
    /\ last.op = "ChangeSubdomain"
    /\ ~last.resp.Err
    /\ last.key = p /\ last.new = L

\* an Update of pair p that got as far as comparing the addresses keeps to label
\* L: it upserts no other label, and when it changes the IP it upserts the A
\* record of L, reports L.{rootDomain} and stores the mapping under L
FollowsLabel(p, L) ==
    /\ store[p] # NoMapping /\ store[p].Subdomain = L
    /\ (IsUpdate /\ last.key = p) =>
          /\ \A i \in UpsertCalls : last.calls[i].subdomain = L
          /\ (~last.resp.Err /\ last.resp.Body.Changed) =>
                /\ \E i \in UpsertCalls : /\ last.calls[i].ok
                                          /\ last.calls[i].ip = last.ip
                /\ dns[L \o "." \o RootDomain] = ARecord(last.ip)
                /\ dns[FormatFQDN(GenerateSubdomain(p[1], p[2]))] =
                      last.dns[FormatFQDN(GenerateSubdomain(p[1], p[2]))]
                /\ last.resp.Body.Subdomain = L \o "." \o RootDomain
                /\ store[p].IP = last.ip

\* C31: after ChangeSubdomain has succeeded with new label L for a pair, every
\* later ordinary Update for that pair that changes the IP upserts the A record
\* under L, not under the derived hash label, reports subdomain L.{rootDomain}
\* and leaves the stored subdomain equal to L.
C31_UpdatesFollowMigration ==
    \A p \in Pairs, L \in NewSubdomains :
        [](Migrated(p, L) => []FollowsLabel(p, L))

\* a change of IP accepted for a mapping that a migration had moved to its new
\* label, the record of the derived label gone
C31_Witness ==
    /\ IsUpdate /\ ~last.resp.Err /\ last.resp.Body.Changed
    /\ Before # NoMapping
    /\ Before.Subdomain \in NewSubdomains
    /\ Before.Subdomain # GenerateSubdomain(last.key[1], last.key[2])
    /\ dns[FormatFQDN(Before.Subdomain)] = ARecord(last.ip)
    /\ last.dns[FormatFQDN(Before.Subdomain)] = ARecord(Before.IP)
    /\ dns[FormatFQDN(GenerateSubdomain(last.key[1], last.key[2]))] = NoRecord

\* invocation i of Update performs its store put in this step
Puts(i) == inflight[i].pc = "put" /\ inflight'[i].pc = "idle"

PutKey(i) == <<inflight[i].request.OwnerID, inflight[i].request.Location>>

\* C32: in every interleaving of an ordinary Update and a ChangeSubdomain on the
\* same pair, the store put performed by the Update never changes the stored
\* subdomain from the value present in the store immediately before that put.
C32_PutKeepsSubdomain ==
    [][\A i \in Invocations :
          (Puts(i) /\ store[PutKey(i)] # NoMapping) =>
              store'[PutKey(i)].Subdomain = store[PutKey(i)].Subdomain]_vars

\* no Update is in flight
Quiescent == \A i \in Invocations : ~InFlight(i)

\* C33: for every interleaving of two concurrent Update requests on the same
\* pair in which all DNS and store calls succeed, once both requests have
\* completed the IP of the DNS A record for the mapping's subdomain equals the ip
\* of the stored mapping.
C33_QuiescentAgreement ==
    Quiescent =>
        \A p \in Pairs :
            store[p] # NoMapping =>
                dns[FormatFQDN(store[p].Subdomain)] = ARecord(store[p].IP)

----------------------------------------------------------------------------
(* Properties of the resolver's result *)

\* C35: for every combination of authority responses, responses with status
\* 200 whose body is empty or white space only included, queryWithConsensus
\* never returns the empty string together with a nil error.
C35_NeverEmptyAddress ==
    ReturnedValue => ret.ip # ""

----------------------------------------------------------------------------
(* Properties of the daemon *)

IsCheck == last.op = "checkAndUpdate"

\* the check just made called the server and the call failed
CallFailed == IsCheck /\ last.called /\ last.err

\* C36: in daemon mode lastIP is assigned only after an UpdateDNS call for that
\* IP returned success; when IP detection or UpdateDNS fails, a rate-limit
\* response included, lastIP is unchanged, so at the next tick with the same
\* detected IP the daemon calls the server again; when the detected IP equals
\* lastIP no server call is made.
C36_DaemonRetry ==
    /\ [](IsCheck =>
            /\ lastIP # last.lastIP =>
                  last.called /\ ~last.err /\ lastIP = last.currentIP
            /\ (~last.detected \/ last.err) => lastIP = last.lastIP
            /\ (last.detected /\ last.currentIP = last.lastIP) => ~last.called
            /\ last.called <=> (last.detected /\ last.currentIP # last.lastIP))
    /\ [][(CallFailed /\ last' # last /\ last'.detected
             /\ last'.currentIP = last.currentIP) => last'.called]_vars
    /\ [][(lastIP' = lastIP /\ last' # last /\ ~last'.called)
             => (store' = store /\ dns' = dns)]_vars

\* a change refused by the rate limiter and tried again at the next tick
C36_Witness ==
    /\ IsCheck /\ last.called
    /\ last.status = StatusTooManyRequests
    /\ lastIP = last.lastIP
    /\ lastIP # "" /\ lastIP # last.currentIP
    /\ store[DaemonKey] # NoMapping
    /\ store[DaemonKey].IP = lastIP

\* the check just made detected v and nothing in it failed
Settled(v) ==
    /\ IsCheck
    /\ last.detected /\ last.currentIP = v
    /\ ~last.err

\* the A record of the daemon's mapping and the stored ip are both v
Converged(v) ==
    /\ store[DaemonKey] # NoMapping
    /\ store[DaemonKey].IP = v
    /\ dns[FormatFQDN(store[DaemonKey].Subdomain)] = ARecord(v)

\* C37: for a daemon client and the Update orchestrator together: if from some
\* point on the detected public IP stays at a fixed value v and IP detection,
\* server calls, DNS upserts and store puts all succeed, the rate limiter
\* allowing the change, then eventually the DNS A record of the mapping and the
\* stored mapping ip both equal v and stay equal to v, whatever failures
\* occurred earlier.
C37_Convergence ==
    \A v \in IPs : <>[]Settled(v) => <>[]Converged(v)

----------------------------------------------------------------------------
(* Properties of the labels of several pairs *)

\* C38: any two distinct (ownerId, location) pairs of non-empty strings derive
\* different labels, the hash taken as injective on its input, so an ordinary
\* Update for one pair never upserts the A record that belongs to another
\* pair's derived label.
C38_DistinctLabels ==
    /\ \A p, q \in DOMAIN store :
          (p # q /\ store[p] # NoMapping /\ store[q] # NoMapping) =>
              store[p].Subdomain # store[q].Subdomain
    /\ IsUpdate =>
          \A i \in UpsertCalls :
              \A q \in DOMAIN store \ {last.key} :
                  last.calls[i].subdomain # GenerateSubdomain(q[1], q[2])

====
